---- MODULE Spec2Model ----
(***************************************************************************)
(* Model of replay_runner.py: the signal engine (rolling_vwap,             *)
(* detect_long_wick, five_min_signals) and the replay driver               *)
(* (run_replay_for_date with its helpers, its command line and its sqlite  *)
(* sink); and of the                                                       *)
(* DBAdapter of db/dbadapter.py (aiosqlite) and db/adapter_pg.py (asyncpg). *)
(*                                                                         *)
(* Prices and volumes are integers (ticks, lots).  A pandas float that is  *)
(* a quotient (VWAP, ATR) is kept as an exact fraction [num, den]; a       *)
(* fraction with den = 0 is NaN.  Every comparison of the code is made by  *)
(* cross-multiplication, so it is exact; floating-point rounding is not    *)
(* modelled.                                                               *)
(***************************************************************************)
EXTENDS Integers, Sequences, FiniteSets, TLC

VARIABLES
    bars,               \* the caller's DataFrame: a sequence of rows
    premarket_high,     \* the caller's premarket_high argument
    pc,                 \* "input" | "loop" | "done" | "raised": position in
                        \* five_min_signals
    df,                 \* the local `bars` after copy/dropna/sort_index
    vwap,               \* local vwap series (line 79)
    tr,                 \* local tr series (lines 81-83)
    atr,                \* local atr series (line 84)
    i,                  \* number of rows the for loop has consumed
    events,             \* local events list
    entry_price_per_t,  \* local entry_price_per_t
    returned,           \* what each completed call was given and returned
    \* run_replay_for_date
    tickers,            \* cfg["tickers"]
    top_n,              \* cfg["top_n_gappers"]
    gap_threshold,      \* cfg["gap_threshold_percent"]
    target_date,        \* the target_date argument: None or <<day>>
    rpc,                \* position in run_replay_for_date: "idle" | "gaps" |
                        \* "cli" | "exited" | "replay" | "events" | "sleep" |
                        \* "done" | "raised" | "aborted"
    gi,                 \* tickers the gap loop has consumed
    d_hist,             \* local d_hist (of the last ticker of the gap loop)
    results,            \* local results
    top,                \* local top
    ri,                 \* index in top of the ticker being replayed
    df_5m,              \* local df_5m
    day_bars,           \* local day_bars
    pm_high,            \* local pm_high
    ticker_events,      \* local events (of the ticker being replayed)
    ei,                 \* index in ticker_events of the event being written
    inplay,             \* the rows of table inplay of scanner.db
    printed,            \* the events printed at line 284, with their ticker
    fetched_5m,         \* tickers whose 5-minute history was requested
    clock,              \* int(time.time()), counted from the start of the run
    error,              \* None, or <<site>> of the exception that left the run
    \* DBAdapter
    backend,            \* "sqlite" (db/dbadapter.py) | "pg" (db/adapter_pg.py)
    rows,               \* the rows of the adapter's table inplay
    record,             \* the argument of the last upsert_inplay call, or None
    calls,              \* upsert_inplay calls made
    notify_tasks,       \* records of the _notify_subscribers tasks created
                        \* and not yet run
    conn,               \* self._conn: None, or <<id>> of the open connection
    connects,           \* aiosqlite.connect calls made
    subscribers,        \* self._subscribers
    delivered,          \* the cb(record) calls made at line 107, in order
    last_call,          \* None, or the last adapter method called, its
                        \* argument, whether it raised, and its return value
    \* replay_runner.py run as a script
    date_arg,           \* args.date: None, or <<text>>
    exit_status,        \* None, or <<code>> of the SystemExit raised by the script
    db_created,         \* init_db has created table inplay
    \* app.py scanner_loop
    scan_tickers,       \* config["tickers"]
    scan_threshold,     \* config["gap_threshold_percent"]
    spc,                \* position in scanner_loop: "idle" (not started) |
                        \* "scan" (in the while loop)
    si,                 \* tickers the for loop has consumed in this cycle
    cycle,              \* completed passes of the while loop
    app_inplay,         \* the rows of table inplay of app.py's scanner.db
    scanned,            \* None, or the last ticker scanned: what yfinance
                        \* returned for it and whether the scan raised
    scan_printed,       \* tickers of the "scanner error" lines printed
    \* db.py
    store,              \* the rows of table inplay of db.py's scanner.db
    keep_arg,           \* <<keep>> when the last db.py call was
                        \* delete_not_inplay(keep), else None
    store_calls,        \* db.py functions called
    \* DBAdapter under concurrent callers, and the asyncpg adapter's table
    tasks,              \* the upsert_inplay calls in flight on the aiosqlite
                        \* adapter: record, position, and the ts they read
    pg_rows             \* the rows of table inplay of the asyncpg adapter
                        \* when both adapters are fed the same records

signal_vars == <<bars, premarket_high, pc, df, vwap, tr, atr, i, events,
                 entry_price_per_t, returned>>

replay_vars == <<tickers, top_n, gap_threshold, target_date, rpc, gi, d_hist,
                 results, top, ri, df_5m, day_bars, pm_high, ticker_events, ei, inplay,
                 printed, fetched_5m, clock, error>>

db_vars == <<backend, rows, record, calls, notify_tasks, conn, connects,
             subscribers, delivered, last_call>>

cli_vars == <<date_arg, exit_status, db_created>>

scan_vars == <<scan_tickers, scan_threshold, spc, si, cycle, app_inplay, scanned,
               scan_printed>>

store_vars == <<store, keep_arg, store_calls>>

sink_vars == <<tasks, pg_rows>>

vars == <<signal_vars, replay_vars, db_vars, cli_vars, scan_vars, store_vars,
          sink_vars>>

----------------------------------------------------------------------------
(* Bounds of the explored inputs *)

MaxBars == 2        \* rows of an input frame (Spec)
LongBars == 16      \* rows of the long frames (SpecLong)
MaxWide == 2        \* bars of a long frame with a non-zero true range
MaxRawBars == 2     \* rows of the raw frames (SpecRaw)
MaxCalls == 2       \* calls on the same frame (SpecRaw)
MaxClock == 1       \* seconds the clock advances during a replay
MaxUpserts == 3     \* DBAdapter.upsert_inplay calls (SpecDb)

\* The grid the bars are drawn from.
Prices == 1..3

Volumes == 0..1

----------------------------------------------------------------------------
(* Program constants *)

ATRWindow == 14             \* tr.rolling(14, ...)
MinPeriods == 1             \* min_periods=1
WickNum == 6                \* wick_ratio = 0.6 = WickNum / WickDen
WickDen == 10
EpsInv == 1000000000        \* 1e-9 = 1 / EpsInv
StopNum == 3                \* 1.5 = StopNum / StopDen
StopDen == 2
NaN == -1                   \* a missing cell of the frame (numpy.nan)
None == <<>>                \* Python None; a present value p is <<p>>

----------------------------------------------------------------------------
(* Arithmetic helpers *)

Abs(x) == IF x < 0 THEN -x ELSE x

Max(a, b) == IF a >= b THEN a ELSE b

Min(a, b) == IF a <= b THEN a ELSE b

RECURSIVE SumSeq(_, _, _)
\* s[lo] + ... + s[hi] (0 when lo > hi)
SumSeq(s, lo, hi) == IF lo > hi THEN 0 ELSE s[hi] + SumSeq(s, lo, hi - 1)

\* A fraction; den = 0 is NaN.
Frac(n, d) == [num |-> n, den |-> d]

IsNaN(q) == q.den = 0

\* x > q and x < q for an integer x and a fraction q: False against NaN.
GtFrac(x, q) == ~IsNaN(q) /\ x * q.den > q.num

LtFrac(x, q) == ~IsNaN(q) /\ x * q.den < q.num

----------------------------------------------------------------------------
(* pandas operations on a frame (a sequence of rows) or a series *)

\* DataFrame.dropna(subset=["Close", "Volume"])
dropna_close_only(b) == SelectSeq(b, LAMBDA r : r.Close /= NaN)

\* DataFrame.dropna(subset=["Close", "Volume"])
dropna(b) == SelectSeq(b, LAMBDA r : r.Close /= NaN /\ r.Volume /= NaN)

RECURSIVE insert_row(_, _)
\* r put into the ts-sorted frame s, after the rows whose ts is not greater
insert_row(s, r) ==
    IF s = <<>> THEN <<r>>
    ELSE IF Head(s).ts <= r.ts THEN <<Head(s)>> \o insert_row(Tail(s), r)
    ELSE <<r>> \o s

\* Variant of sort_index: the rows stay in the caller's order.
sort_index_keep_order(b) == b

RECURSIVE sort_index(_)
\* DataFrame.sort_index(): rows in ascending order of the index ts
sort_index(b) ==
    IF b = <<>> THEN <<>>
    ELSE insert_row(sort_index(SubSeq(b, 1, Len(b) - 1)), b[Len(b)])

\* Variant of ffill: a NaN takes the first value after it that is not NaN.
bfill(s) ==
    [j \in 1..Len(s) |->
        LET valid == {k \in j..Len(s) : ~IsNaN(s[k])}
        IN IF valid = {} THEN s[j]
           ELSE s[CHOOSE k \in valid : \A m \in valid : k <= m]]

\* Series.fillna(method="ffill"): a NaN takes the last value before it that
\* is not NaN; a leading NaN stays.
ffill(s) ==
    [j \in 1..Len(s) |->
        LET valid == {k \in 1..j : ~IsNaN(s[k])}
        IN IF valid = {} THEN s[j]
           ELSE s[CHOOSE k \in valid : \A m \in valid : m <= k]]

----------------------------------------------------------------------------
(* Indicators *)

\* Variant of rolling_vwap: divides by the volume of the bar, not by the
\* cumulative volume.
rolling_vwap_bar_volume(b) ==
    LET pvs == [j \in 1..Len(b) |-> b[j].Close * b[j].Volume]
        pv == [j \in 1..Len(b) |-> SumSeq(pvs, 1, j)]
    IN ffill([j \in 1..Len(b) |->
                 IF b[j].Volume = 0 THEN Frac(0, 0)
                 ELSE Frac(pv[j], b[j].Volume)])

\* rolling_vwap: cumsum(Close * Volume) / cumsum(Volume).replace(0, nan), ffill
rolling_vwap(b) ==
    LET pvs == [j \in 1..Len(b) |-> b[j].Close * b[j].Volume]
        vs == [j \in 1..Len(b) |-> b[j].Volume]
        pv == [j \in 1..Len(b) |-> SumSeq(pvs, 1, j)]
        v == [j \in 1..Len(b) |-> SumSeq(vs, 1, j)]
    IN ffill([j \in 1..Len(b) |->
                 IF v[j] = 0 THEN Frac(0, 0) ELSE Frac(pv[j], v[j])])

\* Binary floating point as pandas computes with it, with a significand of
\* MantissaBits bits in place of the 53 of float64: every product, sum and
\* quotient is rounded to the nearest representable value, ties to even.
MantissaBits == 4

RECURSIVE Pow2(_)
Pow2(n) == IF n = 0 THEN 1 ELSE 2 * Pow2(n - 1)

\* a / b rounded to the nearest integer, ties to the even one.
RoundHalfEven(a, b) ==
    LET q == a \div b
        r == a % b
    IN IF 2 * r < b THEN q
       ELSE IF 2 * r > b THEN q + 1
       ELSE IF q % 2 = 0 THEN q ELSE q + 1

\* The representable value nearest to the non-negative fraction q; NaN and 0
\* are themselves.
fl(q) ==
    IF q.den = 0 \/ q.num = 0 THEN q
    ELSE LET lo == Pow2(MantissaBits - 1)
             hi == Pow2(MantissaBits)
             e == CHOOSE x \in -12..12 :
                     IF x >= 0
                     THEN /\ lo * Pow2(x) * q.den <= q.num
                          /\ q.num < hi * Pow2(x) * q.den
                     ELSE /\ lo * q.den <= q.num * Pow2(-x)
                          /\ q.num * Pow2(-x) < hi * q.den
         IN IF e >= 0
            THEN Frac(RoundHalfEven(q.num, q.den * Pow2(e)) * Pow2(e), 1)
            ELSE Frac(RoundHalfEven(q.num * Pow2(-e), q.den), Pow2(-e))

\* rolling_vwap in floating point: pv is the running sum of the rounded
\* products Close * Volume, each sum rounded; v is the running sum of the
\* integer volumes; pv / v is rounded.
rolling_vwap_float(b) ==
    LET pv[j \in 0..Len(b)] ==
            IF j = 0 THEN Frac(0, 1)
            ELSE LET prod == fl(Frac(b[j].Close * b[j].Volume, 1))
                 IN IF j = 1 THEN prod
                    ELSE fl(Frac(pv[j - 1].num * prod.den
                                    + prod.num * pv[j - 1].den,
                                 pv[j - 1].den * prod.den))
        vs == [j \in 1..Len(b) |-> b[j].Volume]
        v == [j \in 1..Len(b) |-> SumSeq(vs, 1, j)]
    IN ffill([j \in 1..Len(b) |->
                 IF v[j] = 0 THEN Frac(0, 0)
                 ELSE fl(Frac(pv[j].num, pv[j].den * v[j]))])

\* bars["Close"].shift(1).fillna(bars["Open"])
prev_close(b) ==
    [j \in 1..Len(b) |-> IF j = 1 THEN b[1].Open ELSE b[j - 1].Close]

\* np.maximum(x1, x2, out): the third positional argument of the ufunc is its
\* output array, so the value is the maximum of the first two arguments.
np_maximum(x1, x2, out) == Max(x1, x2)

\* tr, lines 81-83
true_range(b) ==
    LET pcl == prev_close(b)
    IN [j \in 1..Len(b) |->
           np_maximum(b[j].High - b[j].Low,
                      Abs(b[j].High - pcl[j]),
                      Abs(b[j].Low - pcl[j]))]

\* Series.rolling(window, min_periods).mean(): mean of the last `window`
\* values, NaN while fewer than min_periods values exist
rolling_mean(s, window, min_periods) ==
    [j \in 1..Len(s) |->
        LET lo == Max(1, j - window + 1)
            n == j - lo + 1
        IN IF n < min_periods THEN Frac(0, 0) ELSE Frac(SumSeq(s, lo, j), n)]

\* Variant of rolling_atr: the mean of every true range so far.
rolling_atr_expanding(t) == ffill(rolling_mean(t, Len(t), MinPeriods))

\* atr, line 84
rolling_atr(t) == ffill(rolling_mean(t, ATRWindow, MinPeriods))

----------------------------------------------------------------------------
(* Signal rules *)

\* detect_long_wick: upper_wick / (High - Low + 1e-9) >= 0.6, that is
\* (WickDen * upper_wick - WickNum * range) * EpsInv >= WickNum.
detect_long_wick(row) ==
    LET body_top == Max(row.Open, row.Close)
        upper_wick == row.High - body_top
        range == row.High - row.Low
        d == WickDen * upper_wick - WickNum * range
    IN d >= (WickNum + EpsInv - 1) \div EpsInv

\* Variant of AtStop: the stop is the entry price itself.
AtStop_no_atr(price, entry, cur_atr) == price <= entry

\* price <= entry - 1.5 * cur_atr
AtStop(price, entry, cur_atr) ==
    /\ ~IsNaN(cur_atr)
    /\ StopDen * cur_atr.den * price
          <= StopDen * cur_atr.den * entry - StopNum * cur_atr.num

Event(ts, kind, reason, price) == <<ts, kind, reason, price>>

\* Variant of loop_body: no `continue` after break_premarket, the remaining
\* rules are evaluated on the same row.
loop_body_fallthrough(row, cur_vwap, cur_atr, entry, pmh) ==
    LET price == row.Close
        first == IF pmh /= None /\ price > pmh[1]
                 THEN [emit |-> <<Event(row.ts, "ENTRY", "break_premarket", price)>>,
                       entry |-> <<price>>]
                 ELSE [emit |-> <<>>, entry |-> entry]
        rest == IF GtFrac(price, cur_vwap) /\ row.Close > row.Open
                THEN [emit |-> <<Event(row.ts, "ENTRY", "vwap_reclaim", price)>>,
                      entry |-> <<price>>]
                ELSE IF LtFrac(price, cur_vwap)
                THEN [emit |-> <<Event(row.ts, "EXIT", "vwap_loss", price)>>,
                      entry |-> None]
                ELSE IF detect_long_wick(row)
                THEN [emit |-> <<Event(row.ts, "EXIT", "long_wick", price)>>,
                      entry |-> None]
                ELSE IF first.entry /= None /\ AtStop(price, first.entry[1], cur_atr)
                THEN [emit |-> <<Event(row.ts, "EXIT", "atr_stop", price)>>,
                      entry |-> None]
                ELSE [emit |-> <<>>, entry |-> first.entry]
    IN [emit |-> first.emit \o rest.emit, entry |-> rest.entry]

\* Variant of loop_body: the long-wick rule is tested first.
loop_body_wick_first(row, cur_vwap, cur_atr, entry, pmh) ==
    LET price == row.Close
    IN IF detect_long_wick(row)
       THEN [emit |-> <<Event(row.ts, "EXIT", "long_wick", price)>>,
             entry |-> None]
       ELSE IF pmh /= None /\ price > pmh[1]
       THEN [emit |-> <<Event(row.ts, "ENTRY", "break_premarket", price)>>,
             entry |-> <<price>>]
       ELSE IF GtFrac(price, cur_vwap) /\ row.Close > row.Open
       THEN [emit |-> <<Event(row.ts, "ENTRY", "vwap_reclaim", price)>>,
             entry |-> <<price>>]
       ELSE IF LtFrac(price, cur_vwap)
       THEN [emit |-> <<Event(row.ts, "EXIT", "vwap_loss", price)>>,
             entry |-> None]
       ELSE IF entry /= None /\ AtStop(price, entry[1], cur_atr)
       THEN [emit |-> <<Event(row.ts, "EXIT", "atr_stop", price)>>,
             entry |-> None]
       ELSE [emit |-> <<>>, entry |-> entry]

\* Variant of loop_body: an ENTRY while already entered keeps the first entry
\* price.
loop_body_keep_entry(row, cur_vwap, cur_atr, entry, pmh) ==
    LET price == row.Close
        kept == IF entry = None THEN <<price>> ELSE entry
    IN IF pmh /= None /\ price > pmh[1]
       THEN [emit |-> <<Event(row.ts, "ENTRY", "break_premarket", price)>>,
             entry |-> kept]
       ELSE IF GtFrac(price, cur_vwap) /\ row.Close > row.Open
       THEN [emit |-> <<Event(row.ts, "ENTRY", "vwap_reclaim", price)>>,
             entry |-> kept]
       ELSE IF LtFrac(price, cur_vwap)
       THEN [emit |-> <<Event(row.ts, "EXIT", "vwap_loss", price)>>,
             entry |-> None]
       ELSE IF detect_long_wick(row)
       THEN [emit |-> <<Event(row.ts, "EXIT", "long_wick", price)>>,
             entry |-> None]
       ELSE IF entry /= None /\ AtStop(price, entry[1], cur_atr)
       THEN [emit |-> <<Event(row.ts, "EXIT", "atr_stop", price)>>,
             entry |-> None]
       ELSE [emit |-> <<>>, entry |-> entry]

\* Variant of loop_body: the vwap_loss and long_wick exits need an entry.
loop_body_gated_exit(row, cur_vwap, cur_atr, entry, pmh) ==
    LET price == row.Close
    IN IF pmh /= None /\ price > pmh[1]
       THEN [emit |-> <<Event(row.ts, "ENTRY", "break_premarket", price)>>,
             entry |-> <<price>>]
       ELSE IF GtFrac(price, cur_vwap) /\ row.Close > row.Open
       THEN [emit |-> <<Event(row.ts, "ENTRY", "vwap_reclaim", price)>>,
             entry |-> <<price>>]
       ELSE IF entry /= None /\ LtFrac(price, cur_vwap)
       THEN [emit |-> <<Event(row.ts, "EXIT", "vwap_loss", price)>>,
             entry |-> None]
       ELSE IF entry /= None /\ detect_long_wick(row)
       THEN [emit |-> <<Event(row.ts, "EXIT", "long_wick", price)>>,
             entry |-> None]
       ELSE IF entry /= None /\ AtStop(price, entry[1], cur_atr)
       THEN [emit |-> <<Event(row.ts, "EXIT", "atr_stop", price)>>,
             entry |-> None]
       ELSE [emit |-> <<>>, entry |-> entry]

\* One pass of the for loop body (lines 89-123) on one row: the events it
\* appends and the value of entry_price_per_t it leaves.
loop_body_reset_when_idle(row, cur_vwap, cur_atr, entry, pmh) ==
    LET price == row.Close
    IN IF pmh /= None /\ price > pmh[1]
       THEN [emit |-> <<Event(row.ts, "ENTRY", "break_premarket", price)>>,
             entry |-> <<price>>]
       ELSE IF GtFrac(price, cur_vwap) /\ row.Close > row.Open
       THEN [emit |-> <<Event(row.ts, "ENTRY", "vwap_reclaim", price)>>,
             entry |-> <<price>>]
       ELSE IF LtFrac(price, cur_vwap)
       THEN [emit |-> <<Event(row.ts, "EXIT", "vwap_loss", price)>>,
             entry |-> None]
       ELSE IF detect_long_wick(row)
       THEN [emit |-> <<Event(row.ts, "EXIT", "long_wick", price)>>,
             entry |-> None]
       ELSE IF entry /= None /\ AtStop(price, entry[1], cur_atr)
       THEN [emit |-> <<Event(row.ts, "EXIT", "atr_stop", price)>>,
             entry |-> None]
       ELSE [emit |-> <<>>, entry |-> None]

loop_body(row, cur_vwap, cur_atr, entry, pmh) ==
    LET price == row.Close
    IN IF pmh /= None /\ price > pmh[1]
       THEN [emit |-> <<Event(row.ts, "ENTRY", "break_premarket", price)>>,
             entry |-> <<price>>]
       ELSE IF GtFrac(price, cur_vwap) /\ row.Close > row.Open
       THEN [emit |-> <<Event(row.ts, "ENTRY", "vwap_reclaim", price)>>,
             entry |-> <<price>>]
       ELSE IF LtFrac(price, cur_vwap)
       THEN [emit |-> <<Event(row.ts, "EXIT", "vwap_loss", price)>>,
             entry |-> None]
       ELSE IF detect_long_wick(row)
       THEN [emit |-> <<Event(row.ts, "EXIT", "long_wick", price)>>,
             entry |-> None]
       ELSE IF entry /= None /\ AtStop(price, entry[1], cur_atr)
       THEN [emit |-> <<Event(row.ts, "EXIT", "atr_stop", price)>>,
             entry |-> None]
       ELSE [emit |-> <<>>, entry |-> entry]

\* Variant of prepare: dropna and sort_index applied in place.
prepare_in_place(b) ==
    [caller |-> sort_index(dropna(b)), local |-> sort_index(dropna(b))]

\* Lines 74-75: the local frame is a filtered, sorted copy; the caller's
\* frame is left as it is.
prepare(b) == [caller |-> b, local |-> sort_index(dropna(b))]

----------------------------------------------------------------------------
(* Input frames *)

Row(t, o, h, l, c, v) ==
    [ts |-> t, Open |-> o, High |-> h, Low |-> l, Close |-> c, Volume |-> v]

\* The valid bars stamped t: Low <= Open, Close <= High; Volume >= 0.
ValidBars(t) ==
    {r \in [ts : {t}, Open : Prices, High : Prices, Low : Prices,
            Close : Prices, Volume : Volumes] :
        r.Low <= Min(r.Open, r.Close) /\ Max(r.Open, r.Close) <= r.High}

PremarketHighs == {None} \cup {<<p>> : p \in Prices}

----------------------------------------------------------------------------
(* five_min_signals as a state machine *)

\* run_replay_for_date is not running.
replay_idle ==
    /\ tickers = <<>>
    /\ top_n = 0
    /\ gap_threshold = 0
    /\ target_date = None
    /\ rpc = "idle"
    /\ gi = 0
    /\ d_hist = <<>>
    /\ results = <<>>
    /\ top = <<>>
    /\ ri = 0
    /\ df_5m = <<>>
    /\ day_bars = <<>>
    /\ pm_high = None
    /\ ticker_events = <<>>
    /\ ei = 0
    /\ inplay = {}
    /\ printed = <<>>
    /\ fetched_5m = <<>>
    /\ clock = 0
    /\ error = None

\* No DBAdapter is in use.
db_idle ==
    /\ backend = "sqlite"
    /\ rows = {}
    /\ record = None
    /\ calls = 0
    /\ notify_tasks = <<>>
    /\ conn = None
    /\ connects = 0
    /\ subscribers = <<>>
    /\ delivered = <<>>
    /\ last_call = None

\* The script has not been started.
cli_idle ==
    /\ date_arg = None
    /\ exit_status = None
    /\ db_created = FALSE

\* app.py's scanner is not running.
scan_idle ==
    /\ scan_tickers = <<>>
    /\ scan_threshold = 0
    /\ spc = "idle"
    /\ si = 0
    /\ cycle = 0
    /\ app_inplay = {}
    /\ scanned = None
    /\ scan_printed = <<>>

\* db.py is not in use.
store_idle ==
    /\ store = {}
    /\ keep_arg = None
    /\ store_calls = 0

\* No upsert_inplay call is in flight and no asyncpg adapter is in use.
sink_idle ==
    /\ tasks = <<>>
    /\ pg_rows = {}

\* run_replay_for_date was called without a date and has run init_db.
cli_called ==
    /\ date_arg = None
    /\ exit_status = None
    /\ db_created = TRUE

Init ==
    /\ replay_idle
    /\ db_idle
    /\ scan_idle
    /\ store_idle
    /\ sink_idle
    /\ cli_idle
    /\ bars = <<>>
    /\ premarket_high \in PremarketHighs
    /\ pc = "input"
    /\ df = <<>>
    /\ vwap = <<>>
    /\ tr = <<>>
    /\ atr = <<>>
    /\ i = 0
    /\ events = <<>>
    /\ entry_price_per_t = None
    /\ returned = <<>>

\* The caller's frame grows by one valid bar with the next timestamp (the
\* 5-minute history the driver hands over, lines 253-274).
AddBar ==
    /\ pc = "input"
    /\ Len(bars) < MaxBars
    /\ \E r \in ValidBars(Len(bars) + 1) : bars' = Append(bars, r)
    /\ UNCHANGED <<premarket_high, pc, df, vwap, tr, atr, i, events,
                   entry_price_per_t, returned>>
    /\ UNCHANGED <<replay_vars, db_vars, cli_vars, scan_vars, store_vars, sink_vars>>

\* Lines 74-87: entry of five_min_signals up to the for loop, or the early
\* return on an empty frame.  float selects the arithmetic of rolling_vwap:
\* exact fractions (FALSE) or rounded floating point (TRUE).
CallBodyWith(float) ==
    /\ LET p == prepare(bars)
           t == true_range(p.local)
       IN /\ bars' = p.caller
          /\ df' = p.local
          /\ IF p.local = <<>>
             THEN /\ pc' = "done"
                  /\ returned' = Append(returned, [arg |-> bars, result |-> <<>>])
                  /\ UNCHANGED <<vwap, tr, atr, i, events, entry_price_per_t>>
             ELSE /\ pc' = "loop"
                  /\ vwap' = IF float THEN rolling_vwap_float(p.local)
                                      ELSE rolling_vwap(p.local)
                  /\ tr' = t
                  /\ atr' = rolling_atr(t)
                  /\ i' = 0
                  /\ events' = <<>>
                  /\ entry_price_per_t' = None
                  /\ UNCHANGED returned
    /\ UNCHANGED premarket_high
    /\ UNCHANGED <<replay_vars, db_vars, cli_vars, scan_vars, store_vars, sink_vars>>

CallBody == CallBodyWith(FALSE)

Call == pc = "input" /\ CallBody

\* vwap.loc[ts] (line 89) is a scalar when the label ts occurs once in the
\* index and a Series when it occurs more than once; float() of a Series of
\* several values raises TypeError.
loc_is_scalar(d, ts) == Cardinality({j \in 1..Len(d) : d[j].ts = ts}) = 1

\* Lines 88-123: one iteration of the for loop.  The TypeError of line 89
\* leaves five_min_signals: the call returns nothing.
Iterate ==
    /\ pc = "loop"
    /\ i < Len(df)
    /\ IF loc_is_scalar(df, df[i + 1].ts)
       THEN /\ LET r == loop_body(df[i + 1], vwap[i + 1], atr[i + 1],
                                  entry_price_per_t, premarket_high)
               IN /\ events' = events \o r.emit
                  /\ entry_price_per_t' = r.entry
            /\ i' = i + 1
            /\ pc' = pc
       ELSE /\ pc' = "raised"
            /\ UNCHANGED <<i, events, entry_price_per_t>>
    /\ UNCHANGED <<bars, premarket_high, df, vwap, tr, atr, returned>>
    /\ UNCHANGED <<replay_vars, db_vars, cli_vars, scan_vars, store_vars, sink_vars>>

\* Line 125: return events.
Return ==
    /\ pc = "loop"
    /\ i = Len(df)
    /\ pc' = "done"
    /\ returned' = Append(returned, [arg |-> bars, result |-> events])
    /\ UNCHANGED <<bars, premarket_high, df, vwap, tr, atr, i, events,
                   entry_price_per_t>>
    /\ UNCHANGED <<replay_vars, db_vars, cli_vars, scan_vars, store_vars, sink_vars>>

Next == AddBar \/ Call \/ Iterate \/ Return

Spec == Init /\ [][Next]_vars

----------------------------------------------------------------------------
(* Floating point: the VWAP as float64 arithmetic rounds it *)

\* Bars whose prices and volumes are representable: a close of 6 or 7 after
\* an open of 6, no wicks, and a volume of 0, 1, 3 or 11.
FloatBars(t) ==
    {Row(t, 6, c, 6, c, v) : c \in {6, 7}, v \in {0, 1, 3, 11}}

AddFloatBar ==
    /\ pc = "input"
    /\ Len(bars) < MaxBars
    /\ \E r \in FloatBars(Len(bars) + 1) : bars' = Append(bars, r)
    /\ UNCHANGED <<premarket_high, pc, df, vwap, tr, atr, i, events,
                   entry_price_per_t, returned>>
    /\ UNCHANGED <<replay_vars, db_vars, cli_vars, scan_vars, store_vars, sink_vars>>

\* five_min_signals called with the VWAP computed in floating point.
CallFloat == pc = "input" /\ CallBodyWith(TRUE)

NextFloat == AddFloatBar \/ CallFloat \/ Iterate \/ Return

SpecFloat == Init /\ [][NextFloat]_vars

----------------------------------------------------------------------------
(* Long frames: enough rows for the 14-row window of the ATR to slide *)

\* Two valid bars closing at 1: a flat one (true range 0 after a close of 1)
\* and a wide one with a high of 2 (true range 1).
FlatBar(t) == Row(t, 1, 1, 1, 1, 1)

WideBar(t) == Row(t, 1, 2, 1, 1, 1)

InitLong == Init /\ premarket_high = None

\* The frame grows by a flat bar, or by a wide one while it holds fewer than
\* MaxWide of them.
AddLongBar ==
    /\ pc = "input"
    /\ Len(bars) < LongBars
    /\ LET t == Len(bars) + 1
           wide == {j \in 1..Len(bars) : bars[j].High > bars[j].Low}
       IN \/ bars' = Append(bars, FlatBar(t))
          \/ Cardinality(wide) < MaxWide /\ bars' = Append(bars, WideBar(t))
    /\ UNCHANGED <<premarket_high, pc, df, vwap, tr, atr, i, events,
                   entry_price_per_t, returned>>
    /\ UNCHANGED <<replay_vars, db_vars, cli_vars, scan_vars, store_vars, sink_vars>>

NextLong == AddLongBar \/ Call \/ Iterate \/ Return

SpecLong == InitLong /\ [][NextLong]_vars

----------------------------------------------------------------------------
(* Raw frames: rows in any order, rows with missing cells, repeated calls *)

\* Flat bars, and the rows that lack every cell, only the close, or only the
\* volume.
RawRowSet(t) ==
    {Row(t, c, c, c, c, v) : c \in Prices, v \in Volumes}
        \cup {Row(t, NaN, NaN, NaN, NaN, NaN),
              Row(t, 2, 2, 2, NaN, 1),
              Row(t, 2, 2, 2, 2, NaN)}

\* The caller's frame grows by one row whose timestamp is not yet in it.
AddRawRow ==
    /\ pc = "input"
    /\ Len(bars) < MaxRawBars
    /\ \E t \in 1..MaxRawBars :
          /\ \A j \in 1..Len(bars) : bars[j].ts /= t
          /\ \E r \in RawRowSet(t) : bars' = Append(bars, r)
    /\ UNCHANGED <<premarket_high, pc, df, vwap, tr, atr, i, events,
                   entry_price_per_t, returned>>
    /\ UNCHANGED <<replay_vars, db_vars, cli_vars, scan_vars, store_vars, sink_vars>>

\* The caller calls five_min_signals again on the same frame.
CallAgain ==
    /\ pc = "done"
    /\ Len(returned) < MaxCalls
    /\ CallBody

NextRaw == AddRawRow \/ Call \/ Iterate \/ Return \/ CallAgain

SpecRaw == Init /\ [][NextRaw]_vars

----------------------------------------------------------------------------
(* Frames on the boundaries of the rules *)

\* Bars that meet the comparisons of the rules with equality: an upper wick
\* of 3 in a range of 5; an untraded bar opening and closing at 4 under a
\* high of 5, which a flat bar at 1 follows at exactly 1.5 ATR below; flat
\* bars at 1, 2 and 3.
EdgeBars(t) ==
    {Row(t, 3, 6, 1, 3, 1), Row(t, 4, 5, 4, 4, 0), Row(t, 1, 1, 1, 1, 1),
     Row(t, 2, 2, 2, 2, 1), Row(t, 3, 3, 3, 3, 1)}

AddEdgeBar ==
    /\ pc = "input"
    /\ Len(bars) < MaxBars
    /\ \E r \in EdgeBars(Len(bars) + 1) : bars' = Append(bars, r)
    /\ UNCHANGED <<premarket_high, pc, df, vwap, tr, atr, i, events,
                   entry_price_per_t, returned>>
    /\ UNCHANGED <<replay_vars, db_vars, cli_vars, scan_vars, store_vars, sink_vars>>

NextEdge == AddEdgeBar \/ Call \/ Iterate \/ Return

SpecEdge == Init /\ [][NextEdge]_vars

----------------------------------------------------------------------------
(* Frames no feed should deliver: repeated timestamps, impossible bars *)

\* Flat bars, and a bar that closes above its high.
BadRowSet(t) ==
    {Row(t, c, c, c, c, 1) : c \in Prices} \cup {Row(t, 1, 1, 1, 2, 1)}

\* The caller's frame grows by one row with any timestamp, repeated or out
\* of order.
AddBadRow ==
    /\ pc = "input"
    /\ Len(bars) < MaxRawBars
    /\ \E t \in 1..MaxRawBars :
          \E r \in BadRowSet(t) : bars' = Append(bars, r)
    /\ UNCHANGED <<premarket_high, pc, df, vwap, tr, atr, i, events,
                   entry_price_per_t, returned>>
    /\ UNCHANGED <<replay_vars, db_vars, cli_vars, scan_vars, store_vars, sink_vars>>

NextBad == AddBadRow \/ Call \/ Iterate \/ Return

SpecBad == Init /\ [][NextBad]_vars

----------------------------------------------------------------------------
(* five_min_signals as a function of its arguments *)

RECURSIVE run_loop(_, _, _, _, _, _)
\* The events of the for loop from row j on, entered with `entry`.
run_loop(d, vw, at, pmh, j, entry) ==
    IF j > Len(d) THEN <<>>
    ELSE LET r == loop_body(d[j], vw[j], at[j], entry, pmh)
         IN r.emit \o run_loop(d, vw, at, pmh, j + 1, r.entry)

five_min_signals(b, pmh) ==
    LET d == prepare(b).local
    IN IF d = <<>> THEN <<>>
       ELSE run_loop(d, rolling_vwap(d), rolling_atr(true_range(d)), pmh,
                     1, None)

----------------------------------------------------------------------------
(* The replay driver: dates, daily gaps, premarket high *)

\* A timestamp is the number of minutes since day 0, 00:00.
Stamp(day, hour, minute) == day * 1440 + hour * 60 + minute

\* ts.date() / index.normalize(), ts.hour, ts.minute
Date(ts) == ts \div 1440

Hour(ts) == (ts % 1440) \div 60

Minute(ts) == ts % 60

\* Variant of filter_bars_for_date: every row is kept.
filter_bars_for_date_all(f, date) == f

\* filter_bars_for_date: the rows of df_5m dated target_date.
filter_bars_for_date(f, date) ==
    IF f = <<>> THEN f ELSE SelectSeq(f, LAMBDA r : Date(r.ts) = date)

\* The maximum of a non-empty set of numbers.
SetMax(S) == CHOOSE x \in S : \A y \in S : y <= x

\* Variant of compute_premarket_high: a bar at the open counts as premarket.
compute_premarket_high_through_open(f, market_open_hour, market_open_minute) ==
    LET pm_df == SelectSeq(f, LAMBDA r :
                     \/ Hour(r.ts) < market_open_hour
                     \/ /\ Hour(r.ts) = market_open_hour
                        /\ Minute(r.ts) <= market_open_minute)
    IN IF f = <<>> \/ pm_df = <<>> THEN None
       ELSE <<SetMax({pm_df[j].High : j \in 1..Len(pm_df)})>>

\* compute_premarket_high (lines 152-169)
compute_premarket_high(f, market_open_hour, market_open_minute) ==
    LET pm_df == SelectSeq(f, LAMBDA r :
                     \/ Hour(r.ts) < market_open_hour
                     \/ /\ Hour(r.ts) = market_open_hour
                        /\ Minute(r.ts) < market_open_minute)
    IN IF f = <<>> \/ pm_df = <<>> THEN None
       ELSE <<SetMax({pm_df[j].High : j \in 1..Len(pm_df)})>>

\* A row of the daily history.
DailyRow(d, o, c) == [date |-> d, Open |-> o, Close |-> c]

\* gap_pct = (open_today - prev_close) / prev_close * 100.0, as a fraction
gap_pct(open_today, prev_close_d) ==
    Frac((open_today - prev_close_d) * 100, prev_close_d)

\* Variant of gap_candidates: no test of matched == 0, so the previous close
\* of a first row is iloc[-1], the close of the last row.
gap_candidates_no_prior_check(t, h, target) ==
    IF h = <<>> THEN <<>>
    ELSE IF target = None
    THEN IF Len(h) < 2 THEN <<>>
         ELSE LET prev_close_d == h[Len(h) - 1].Close
                  open_today == h[Len(h)].Open
              IN <<<<t, gap_pct(open_today, prev_close_d), prev_close_d, open_today>>>>
    ELSE LET dated == {idx \in 1..Len(h) : h[idx].date = target[1]}
         IN IF dated = {} THEN <<>>
            ELSE LET matched == CHOOSE idx \in dated : \A k \in dated : idx <= k
                     prev_close_d == IF matched = 1 THEN h[Len(h)].Close
                                   ELSE h[matched - 1].Close
                     open_today == h[matched].Open
                 IN <<<<t, gap_pct(open_today, prev_close_d), prev_close_d,
                        open_today>>>>

\* Lines 200-234: what one ticker's daily history h appends to results:
\* nothing, or the tuple (t, gap_pct, prev_close, open_today).
gap_candidates(t, h, target) ==
    IF h = <<>> THEN <<>>
    ELSE IF target = None
    THEN IF Len(h) < 2 THEN <<>>
         ELSE LET prev_close_d == h[Len(h) - 1].Close
                  open_today == h[Len(h)].Open
              IN <<<<t, gap_pct(open_today, prev_close_d), prev_close_d, open_today>>>>
    ELSE LET dated == {idx \in 1..Len(h) : h[idx].date = target[1]}
         IN IF dated = {} THEN <<>>
            ELSE LET matched == CHOOSE idx \in dated : \A k \in dated : idx <= k
                 IN IF matched = 1 THEN <<>>
                    ELSE LET prev_close_d == h[matched - 1].Close
                             open_today == h[matched].Open
                         IN <<<<t, gap_pct(open_today, prev_close_d), prev_close_d,
                                open_today>>>>

\* a >= b for two fractions with positive denominators.
GeqFrac(a, b) == a.num * b.den >= b.num * a.den

RECURSIVE insert_desc(_, _)
\* r put into s, sorted by gap_pct descending, after the entries whose
\* gap_pct is not smaller (sorted is stable, reverse=True keeps ties in order).
insert_desc(s, r) ==
    IF s = <<>> THEN <<r>>
    ELSE IF GeqFrac(s[Len(s)][2], r[2]) THEN Append(s, r)
    ELSE Append(insert_desc(SubSeq(s, 1, Len(s) - 1), r), s[Len(s)])

\* Variant of sorted_desc: the candidates stay in the order of the tickers.
sorted_desc_config_order(s) == s

RECURSIVE sorted_desc(_)
\* sorted(s, key=lambda x: x[1], reverse=True)
sorted_desc(s) ==
    IF s = <<>> THEN <<>>
    ELSE insert_desc(sorted_desc(SubSeq(s, 1, Len(s) - 1)), s[Len(s)])

\* Variant of rank: keeps the gaps strictly above the threshold.
rank_above_threshold(res, threshold) ==
    sorted_desc(SelectSeq(res, LAMBDA r : r[2].num > threshold * r[2].den))

\* Line 239: the candidates at or above the threshold, largest gap first.
rank(res, threshold) ==
    sorted_desc(SelectSeq(res, LAMBDA r : r[2].num >= threshold * r[2].den))

\* results[:top_n] for top_n >= 0
head(s, n) == SubSeq(s, 1, Min(n, Len(s)))

----------------------------------------------------------------------------
(* The sqlite sink of the replay driver *)

\* f"{kind}:{reason}"
reason_str(ev) == ev[2] \o ":" \o ev[3]

\* f"{price:.2f}": the text of the integer part, a point and two decimals.
format_2f(price) == <<price, ".", 0, 0>>

\* Variant of upsert_inplay: INSERT OR IGNORE, a ticker that has a row keeps
\* it.
upsert_inplay_ignore(table, ticker, reason, entry, last_price, now) ==
    IF \E r \in table : r.ticker = ticker THEN table
    ELSE table \cup {[ticker |-> ticker, reason |-> reason, entry |-> entry,
                      last_price |-> last_price, ts |-> now]}

\* Variant of upsert_inplay: INSERT, the row of the ticker is not removed.
upsert_inplay_insert(table, ticker, reason, entry, last_price, now) ==
    table \cup {[ticker |-> ticker, reason |-> reason, entry |-> entry,
                 last_price |-> last_price, ts |-> now]}

\* upsert_inplay (lines 46-54): REPLACE INTO inplay removes the row holding
\* the primary key `ticker`, then inserts; committed as one transaction.
upsert_inplay(table, ticker, reason, entry, last_price, now) ==
    {r \in table : r.ticker /= ticker}
        \cup {[ticker |-> ticker, reason |-> reason, entry |-> entry,
               last_price |-> last_price, ts |-> now]}

----------------------------------------------------------------------------
(* run_replay_for_date as a state machine *)

\* The signal engine is not stepped while the driver runs: the driver calls
\* five_min_signals as a function.
signal_idle ==
    /\ bars = <<>>
    /\ premarket_high = None
    /\ pc = "input"
    /\ df = <<>>
    /\ vwap = <<>>
    /\ tr = <<>>
    /\ atr = <<>>
    /\ i = 0
    /\ events = <<>>
    /\ entry_price_per_t = None
    /\ returned = <<>>

\* Daily closes and opens of the feed.
DailyPrices == {100, 110, 200}

\* The target day of the replay, and the day before it.
TargetDay == 2

PriorDay == 1

\* The daily histories of the feed: empty, one row, or the two days.
DailyHists ==
    {<<>>}
        \cup {<<DailyRow(d, p, p)>> : d \in {PriorDay, TargetDay}, p \in DailyPrices}
        \cup {<<DailyRow(PriorDay, p, p), DailyRow(TargetDay, q, q)>> :
                 p \in DailyPrices, q \in DailyPrices}

TargetDates == {None, <<TargetDay>>}

GapThresholds == {10, 100}

\* The 5-minute timestamps of the feed, in index order.
Stamps ==
    <<Stamp(PriorDay, 8, 55), Stamp(PriorDay, 10, 0), Stamp(TargetDay, 9, 25),
      Stamp(TargetDay, 9, 30), Stamp(TargetDay, 10, 0)>>

\* The frame with a flat bar of price f[k] at stamps[k] wherever f[k] /= 0.
FrameOf(stamps, f) ==
    LET all == [k \in 1..Len(stamps) |-> Row(stamps[k], f[k], f[k], f[k], f[k], 1)]
    IN SelectSeq(all, LAMBDA r : r.Close /= 0)

\* The 5-minute histories over `stamps` with prices up to maxp.
Frames(stamps, maxp) ==
    {FrameOf(stamps, f) : f \in [1..Len(stamps) -> 0..maxp]}

\* State after init_db and the reading of the configuration (lines 180-195).
InitReplayWith(tks) ==
    /\ signal_idle
    /\ db_idle
    /\ scan_idle
    /\ store_idle
    /\ sink_idle
    /\ cli_called
    /\ tickers = tks
    /\ top_n \in 1..Len(tks)
    /\ gap_threshold \in GapThresholds
    /\ target_date \in TargetDates
    /\ rpc = "gaps"
    /\ gi = 0
    /\ d_hist = <<>>
    /\ results = <<>>
    /\ top = <<>>
    /\ ri = 0
    /\ df_5m = <<>>
    /\ day_bars = <<>>
    /\ pm_high = None
    /\ ticker_events = <<>>
    /\ ei = 0
    /\ inplay = {}
    /\ printed = <<>>
    /\ fetched_5m = <<>>
    /\ clock = 0
    /\ error = None

\* Lines 196-236: one iteration of the gap loop.  An exception of the daily
\* fetch is caught by the except of line 235 and the ticker adds nothing.
GapStep ==
    /\ rpc = "gaps"
    /\ gi < Len(tickers)
    /\ gi' = gi + 1
    /\ \/ UNCHANGED <<d_hist, results>>
       \/ \E h \in DailyHists :
             /\ d_hist' = h
             /\ results' = results \o gap_candidates(tickers[gi + 1], h, target_date)
    /\ UNCHANGED <<tickers, top_n, gap_threshold, target_date, rpc, top, ri,
                   df_5m, day_bars, pm_high, ticker_events, ei, inplay, printed,
                   fetched_5m, clock, error>>
    /\ UNCHANGED <<signal_vars, db_vars, cli_vars, scan_vars, store_vars, sink_vars>>

\* Lines 239-243: filter, sort, cut; return when nothing is left.
Rank ==
    /\ rpc = "gaps"
    /\ gi = Len(tickers)
    /\ results' = rank(results, gap_threshold)
    /\ top' = head(results', top_n)
    /\ IF top' = <<>> THEN rpc' = "done" /\ ri' = ri
       ELSE rpc' = "replay" /\ ri' = 1
    /\ UNCHANGED <<tickers, top_n, gap_threshold, target_date, gi, d_hist, df_5m,
                   day_bars, pm_high, ticker_events, ei, inplay, printed,
                   fetched_5m, clock, error>>
    /\ UNCHANGED <<signal_vars, db_vars, cli_vars, scan_vars, store_vars, sink_vars>>

\* Lines 250-279: the 5-minute history of the next ticker of top, drawn from
\* `feed`, up to its first event; or an exception of the fetch, which nothing
\* catches.
ReplayTicker(feed) ==
    /\ rpc = "replay"
    /\ ri <= Len(top)
    /\ fetched_5m' = Append(fetched_5m, top[ri][1])
    /\ \/ /\ rpc' = "raised"
          /\ error' = <<"history">>
          /\ UNCHANGED <<ri, df_5m, day_bars, pm_high, ticker_events, ei>>
       \/ /\ error' = error
          /\ \E f \in feed :
                LET used_date == IF target_date = None
                                 THEN Date(f[Len(f)].ts) ELSE target_date[1]
                    d == filter_bars_for_date(f, used_date)
                    pm == compute_premarket_high(f, 9, 30)
                    evs == five_min_signals(d, pm)
                IN /\ df_5m' = f
                   /\ IF f = <<>>
                      THEN /\ ri' = ri + 1
                           /\ UNCHANGED <<rpc, day_bars, pm_high, ticker_events, ei>>
                      ELSE IF d = <<>>
                      THEN /\ day_bars' = d
                           /\ ri' = ri + 1
                           /\ UNCHANGED <<rpc, pm_high, ticker_events, ei>>
                      ELSE /\ day_bars' = d
                           /\ pm_high' = pm
                           /\ ticker_events' = evs
                           /\ IF evs = <<>>
                              THEN ri' = ri + 1 /\ UNCHANGED <<rpc, ei>>
                              ELSE ri' = ri /\ rpc' = "events" /\ ei' = 1
    /\ UNCHANGED <<tickers, top_n, gap_threshold, target_date, gi, d_hist, results,
                   top, inplay, printed, clock>>
    /\ UNCHANGED <<signal_vars, db_vars, cli_vars, scan_vars, store_vars, sink_vars>>

\* Lines 281-285: the event is printed and written to the sink; an exception
\* of upsert_inplay leaves the row as it was and nothing catches it.
WriteEvent ==
    /\ rpc = "events"
    /\ LET ev == ticker_events[ei]
           ticker == top[ri][1]
       IN /\ printed' = Append(printed, [ticker |-> ticker, ev |-> ev])
          /\ \/ /\ inplay' = upsert_inplay(inplay, ticker, reason_str(ev),
                                           format_2f(ev[4]), ev[4], clock)
                /\ rpc' = "sleep"
                /\ error' = error
             \/ /\ rpc' = "raised"
                /\ error' = <<"upsert_inplay">>
                /\ inplay' = inplay
    /\ UNCHANGED <<tickers, top_n, gap_threshold, target_date, gi, d_hist, results,
                   top, ri, df_5m, day_bars, pm_high, ticker_events, ei,
                   fetched_5m, clock>>
    /\ UNCHANGED <<signal_vars, db_vars, cli_vars, scan_vars, store_vars, sink_vars>>

\* Line 287 and the loop controls: the pacing delay, during which the clock
\* may reach the next second, then the next event or the next ticker.
Sleep ==
    /\ rpc = "sleep"
    /\ \/ clock' = clock
       \/ clock < MaxClock /\ clock' = clock + 1
    /\ IF ei < Len(ticker_events)
       THEN ei' = ei + 1 /\ rpc' = "events" /\ ri' = ri
       ELSE ei' = ei /\ rpc' = "replay" /\ ri' = ri + 1
    /\ UNCHANGED <<tickers, top_n, gap_threshold, target_date, gi, d_hist, results,
                   top, df_5m, day_bars, pm_high, ticker_events, inplay, printed,
                   fetched_5m, error>>
    /\ UNCHANGED <<signal_vars, db_vars, cli_vars, scan_vars, store_vars, sink_vars>>

\* Line 289: every ticker of top has been replayed.
Finish ==
    /\ rpc = "replay"
    /\ ri > Len(top)
    /\ rpc' = "done"
    /\ UNCHANGED <<tickers, top_n, gap_threshold, target_date, gi, d_hist, results,
                   top, ri, df_5m, day_bars, pm_high, ticker_events, ei, inplay,
                   printed, fetched_5m, clock, error>>
    /\ UNCHANGED <<signal_vars, db_vars, cli_vars, scan_vars, store_vars, sink_vars>>

\* The run is interrupted (KeyboardInterrupt, kill) between two steps.
Abort ==
    /\ rpc \in {"gaps", "replay", "events", "sleep"}
    /\ rpc' = "aborted"
    /\ UNCHANGED <<tickers, top_n, gap_threshold, target_date, gi, d_hist, results,
                   top, ri, df_5m, day_bars, pm_high, ticker_events, ei, inplay,
                   printed, fetched_5m, clock, error>>
    /\ UNCHANGED <<signal_vars, db_vars, cli_vars, scan_vars, store_vars, sink_vars>>

\* Two tickers, 5-minute histories over the last three timestamps of the
\* prior-day premarket and the target day.
ConfiguredTickers == <<"AAPL", "TSLA">>

SmallFeed == Frames(<<Stamps[1], Stamps[4], Stamps[5]>>, 2)

InitReplay == InitReplayWith(ConfiguredTickers)

NextReplay ==
    GapStep \/ Rank \/ ReplayTicker(SmallFeed) \/ WriteEvent \/ Sleep \/ Finish
        \/ Abort

SpecReplay == InitReplay /\ [][NextReplay]_vars

\* Two tickers, 5-minute histories over the two timestamps of the prior day
\* and the 09:30 bar of the target day.
PriorDayFeed == Frames(<<Stamps[1], Stamps[2], Stamps[4]>>, 2)

NextDates ==
    GapStep \/ Rank \/ ReplayTicker(PriorDayFeed) \/ WriteEvent \/ Sleep \/ Finish
        \/ Abort

SpecDates == InitReplay /\ [][NextDates]_vars

\* One ticker, 5-minute histories over every timestamp.
FullFeed == Frames(Stamps, 3)

InitIntraday == InitReplayWith(<<"AAPL">>)

NextIntraday ==
    GapStep \/ Rank \/ ReplayTicker(FullFeed) \/ WriteEvent \/ Sleep \/ Finish
        \/ Abort

SpecIntraday == InitIntraday /\ [][NextIntraday]_vars

----------------------------------------------------------------------------
(* replay_runner.py run as a script: --date *)

\* The text of a --date value is a sequence of tokens: numbers (digit runs)
\* and other strings.  Zero padding is not modelled.
IsLeap(y) == (y % 4 = 0 /\ y % 100 /= 0) \/ y % 400 = 0

DaysInMonth(y, m) ==
    IF m = 2 THEN (IF IsLeap(y) THEN 29 ELSE 28)
    ELSE IF m \in {4, 6, 9, 11} THEN 30 ELSE 31

RECURSIVE DaysBeforeMonth(_, _)
DaysBeforeMonth(y, m) ==
    IF m = 1 THEN 0 ELSE DaysBeforeMonth(y, m - 1) + DaysInMonth(y, m - 1)

\* date.toordinal(): days since 0001-01-01, that day being 1.
toordinal(y, m, d) ==
    LET b == y - 1
    IN b * 365 + b \div 4 - b \div 100 + b \div 400 + DaysBeforeMonth(y, m) + d

\* The feed numbers its days from 2024-01-01, which is day 1.
FeedDay(y, m, d) == toordinal(y, m, d) - toordinal(2023, 12, 31)

\* parse_date_str: datetime.strptime(date_str, "%Y-%m-%d").date() as a day of
\* the feed, or None for the ValueError.
parse_date_str(text) ==
    IF /\ Len(text) = 5
       /\ text[2] = "-"
       /\ text[4] = "-"
       /\ text[1] \in 1..9999
       /\ text[3] \in 1..12
       /\ text[5] \in 1..DaysInMonth(text[1], text[3])
    THEN <<FeedDay(text[1], text[3], text[5])>>
    ELSE None

\* The --date values tried: none, the empty string, three dates and four
\* texts that are no dates.
DateArgs ==
    {None, <<<<>>>>,
     <<<<2024, "-", 1, "-", 2>>>>, <<<<2024, "-", 1, "-", 1>>>>,
     <<<<2024, "-", 2, "-", 29>>>>,
     <<<<2023, "-", 2, "-", 29>>>>, <<<<2024, "-", 13, "-", 1>>>>,
     <<<<2024, "/", 1, "/", 2>>>>, <<<<"yesterday">>>>}

\* The script is started with some --date and the configuration on disk.
InitCli ==
    /\ signal_idle
    /\ db_idle
    /\ scan_idle
    /\ store_idle
    /\ sink_idle
    /\ date_arg \in DateArgs
    /\ exit_status = None
    /\ db_created = FALSE
    /\ tickers = <<"AAPL">>
    /\ top_n = 1
    /\ gap_threshold \in GapThresholds
    /\ target_date = None
    /\ rpc = "cli"
    /\ gi = 0
    /\ d_hist = <<>>
    /\ results = <<>>
    /\ top = <<>>
    /\ ri = 0
    /\ df_5m = <<>>
    /\ day_bars = <<>>
    /\ pm_high = None
    /\ ticker_events = <<>>
    /\ ei = 0
    /\ inplay = {}
    /\ printed = <<>>
    /\ fetched_5m = <<>>
    /\ clock = 0
    /\ error = None

\* Lines 292-304 and 180-192: `if args.date:` parses the date, and a
\* ValueError ends the script with SystemExit(1); otherwise
\* run_replay_for_date is called, which first runs init_db.
Main ==
    /\ rpc = "cli"
    /\ IF date_arg /= None /\ date_arg[1] /= <<>>
       THEN LET target == parse_date_str(date_arg[1])
            IN IF target = None
               THEN /\ exit_status' = <<1>>
                    /\ rpc' = "exited"
                    /\ UNCHANGED <<target_date, db_created>>
               ELSE /\ target_date' = target
                    /\ rpc' = "gaps"
                    /\ db_created' = TRUE
                    /\ exit_status' = exit_status
       ELSE /\ target_date' = None
            /\ rpc' = "gaps"
            /\ db_created' = TRUE
            /\ exit_status' = exit_status
    /\ UNCHANGED <<tickers, top_n, gap_threshold, gi, d_hist, results, top, ri,
                   df_5m, day_bars, pm_high, ticker_events, ei, inplay, printed,
                   fetched_5m, clock, error, date_arg>>
    /\ UNCHANGED <<signal_vars, db_vars, scan_vars, store_vars, sink_vars>>

NextCli ==
    Main \/ GapStep \/ Rank \/ ReplayTicker(SmallFeed) \/ WriteEvent \/ Sleep
        \/ Finish \/ Abort

SpecCli == InitCli /\ [][NextCli]_vars

----------------------------------------------------------------------------
(* DBAdapter.upsert_inplay, aiosqlite and asyncpg *)

\* The InPlayRecord values handed to the adapter.  price stands for the
\* scalar fields (company, price, change_pct, float_shares, market_cap,
\* volume, signal), which both adapters store as given.
DbTickers == {"AAPL", "TSLA"}

DbPrices == 1..2

\* record.news when it is a list: <<list>>, the empty list included.
NewsLists == {<<<<>>>>, <<<<"url">>>>}

Timestamps == 1..2

InPlayRecord(t, p, n, s) == [ticker |-> t, price |-> p, news |-> n, ts |-> s]

InPlayRecords ==
    {InPlayRecord(t, p, n, s) :
        t \in DbTickers, p \in DbPrices, n \in NewsLists, s \in Timestamps}

\* json.dumps(news): the JSON text of the list.
json_dumps(n) == <<"json", n>>

\* dbadapter.py line 72: json.dumps(record.news) if record.news else None
sqlite_params(rec) ==
    [ticker |-> rec.ticker, price |-> rec.price,
     news |-> IF rec.news = None \/ rec.news[1] = <<>> THEN None
              ELSE json_dumps(rec.news[1]),
     ts |-> rec.ts]

\* adapter_pg.py line 54: json.dumps(record.news) if record.news is not None
pg_params(rec) ==
    [ticker |-> rec.ticker, price |-> rec.price,
     news |-> IF rec.news = None THEN None ELSE json_dumps(rec.news[1]),
     ts |-> rec.ts]

\* Variant of sqlite_upsert_inplay: a record whose ts equals the stored ts is
\* skipped as stale.
sqlite_upsert_inplay_skip_equal(table, rec) ==
    LET found == {r \in table : r.ticker = rec.ticker}
        existing_ts == IF found = {} THEN None
                       ELSE <<(CHOOSE r \in found : TRUE).ts>>
    IN IF existing_ts /= None /\ existing_ts[1] >= rec.ts
       THEN [table |-> table, written |-> FALSE]
       ELSE IF existing_ts = None
       THEN [table |-> table \cup {sqlite_params(rec)}, written |-> TRUE]
       ELSE [table |-> {IF r.ticker = rec.ticker THEN sqlite_params(rec) ELSE r :
                           r \in table},
             written |-> TRUE]

\* Variant of sqlite_upsert_inplay: the stale test does not return, the call
\* goes on to line 98 without writing.
sqlite_upsert_inplay_stale_notifies(table, rec) ==
    LET found == {r \in table : r.ticker = rec.ticker}
        existing_ts == IF found = {} THEN None
                       ELSE <<(CHOOSE r \in found : TRUE).ts>>
    IN IF existing_ts /= None /\ existing_ts[1] > rec.ts
       THEN [table |-> table, written |-> TRUE]
       ELSE IF existing_ts = None
       THEN [table |-> table \cup {sqlite_params(rec)}, written |-> TRUE]
       ELSE [table |-> {IF r.ticker = rec.ticker THEN sqlite_params(rec) ELSE r :
                           r \in table},
             written |-> TRUE]

\* dbadapter.py lines 58-95, run without interruption: SELECT ts, the stale
\* test, INSERT or UPDATE ... WHERE ticker = ?, commit.  `written` tells
\* whether the call reached the commit (and so line 98).
sqlite_upsert_inplay(table, rec) ==
    LET found == {r \in table : r.ticker = rec.ticker}
        existing_ts == IF found = {} THEN None
                       ELSE <<(CHOOSE r \in found : TRUE).ts>>
    IN IF existing_ts /= None /\ existing_ts[1] > rec.ts
       THEN [table |-> table, written |-> FALSE]
       ELSE IF existing_ts = None
       THEN [table |-> table \cup {sqlite_params(rec)}, written |-> TRUE]
       ELSE [table |-> {IF r.ticker = rec.ticker THEN sqlite_params(rec) ELSE r :
                           r \in table},
             written |-> TRUE]

\* adapter_pg.py lines 56-82: INSERT ... ON CONFLICT (ticker) DO UPDATE ...
\* WHERE EXCLUDED.ts >= inplay.ts, one statement.
pg_upsert_inplay(table, rec) ==
    LET found == {r \in table : r.ticker = rec.ticker}
    IN IF found = {} THEN table \cup {pg_params(rec)}
       ELSE {IF r.ticker = rec.ticker /\ rec.ts >= r.ts THEN pg_params(rec)
             ELSE r : r \in table}

\* json.loads of a stored news text.
json_loads(text) == text[2]

\* dbadapter.py lines 122-133: the InPlayRecord built from a row;
\* news = json.loads(row[7]) if row[7] else None.
row_to_record(r) ==
    [ticker |-> r.ticker, price |-> r.price,
     news |-> IF r.news = None THEN None ELSE <<json_loads(r.news)>>,
     ts |-> r.ts]

\* dbadapter.py lines 117-133: the record of the ticker's row, or None.
get_inplay(table, ticker) ==
    LET found == {r \in table : r.ticker = ticker}
    IN IF found = {} THEN None
       ELSE <<row_to_record(CHOOSE r \in found : TRUE)>>

\* dbadapter.py lines 140-158: the records of all rows (SELECT without
\* ORDER BY: the order is not determined, the result is kept as a set).
list_inplay(table) == {row_to_record(r) : r \in table}

\* The callbacks a client may register: an `async def` whose call returns a
\* coroutine, and a callable whose call raises.
Callbacks == {"on_change", "on_error"}

call_raises(cb) == cb = "on_error"

\* Variant of notify_subscribers: the exception of a callback leaves the loop.
RECURSIVE notify_subscribers_stop_on_error(_, _)
notify_subscribers_stop_on_error(subs, rec) ==
    IF subs = <<>> THEN <<>>
    ELSE LET cb == Head(subs)
             called == [callback |-> cb, record |-> rec,
                        task |-> ~call_raises(cb)]
         IN IF call_raises(cb) THEN <<called>>
            ELSE <<called>> \o notify_subscribers_stop_on_error(Tail(subs), rec)

\* dbadapter.py lines 104-110 on the copy `subs`: cb(record) is called for
\* every element in list order; a task is created from what the call
\* returns, and an exception of the call is swallowed.
RECURSIVE notify_subscribers(_, _)
notify_subscribers(subs, rec) ==
    IF subs = <<>> THEN <<>>
    ELSE LET cb == Head(subs)
             called == [callback |-> cb, record |-> rec,
                        task |-> ~call_raises(cb)]
         IN <<called>> \o notify_subscribers(Tail(subs), rec)

\* list.remove(x): the first occurrence is removed; ValueError when there is
\* none.
list_remove(s, x) ==
    IF \A k \in 1..Len(s) : s[k] /= x
    THEN [raised |-> TRUE, list |-> s]
    ELSE LET k == CHOOSE n \in 1..Len(s) :
                     s[n] = x /\ \A j \in 1..(n - 1) : s[j] /= x
         IN [raised |-> FALSE,
             list |-> SubSeq(s, 1, k - 1) \o SubSeq(s, k + 1, Len(s))]

\* The record of a method call kept in last_call.
Called(op, arg, raised, value) ==
    [op |-> op, arg |-> arg, raised |-> raised, value |-> value]

\* An initialised adapter of either kind on an empty table.
InitDb ==
    /\ signal_idle
    /\ replay_idle
    /\ cli_idle
    /\ scan_idle
    /\ store_idle
    /\ sink_idle
    /\ backend \in {"sqlite", "pg"}
    /\ rows = {}
    /\ record = None
    /\ calls = 0
    /\ notify_tasks = <<>>
    /\ conn = <<1>>
    /\ connects = 1
    /\ subscribers = <<>>
    /\ delivered = <<>>
    /\ last_call = None

\* One upsert_inplay call with a record of `records`, awaited to its end
\* before the next one starts; at most `limit` calls are made.  The aiosqlite adapter raises RuntimeError
\* without a connection (lines 57-58) and creates a _notify_subscribers task
\* after its commit (line 98); the asyncpg adapter has no subscribers.
UpsertFrom(records, limit) ==
    /\ calls < limit
    /\ calls' = calls + 1
    /\ \E rec \in records :
          /\ record' = rec
          /\ IF backend = "sqlite" /\ conn = None
             THEN /\ last_call' = Called("upsert_inplay", rec, TRUE, None)
                  /\ UNCHANGED <<rows, notify_tasks>>
             ELSE /\ last_call' = Called("upsert_inplay", rec, FALSE, None)
                  /\ IF backend = "sqlite"
                     THEN LET u == sqlite_upsert_inplay(rows, rec)
                          IN /\ rows' = u.table
                             /\ notify_tasks' =
                                   IF u.written THEN Append(notify_tasks, rec)
                                   ELSE notify_tasks
                     ELSE /\ rows' = pg_upsert_inplay(rows, rec)
                          /\ notify_tasks' = notify_tasks
    /\ UNCHANGED <<backend, conn, connects, subscribers, delivered>>
    /\ UNCHANGED <<signal_vars, replay_vars, cli_vars, scan_vars, store_vars, sink_vars>>

Upsert == UpsertFrom(InPlayRecords, MaxUpserts)

NextDb == Upsert

SpecDb == InitDb /\ [][NextDb]_vars

----------------------------------------------------------------------------
(* DBAdapter (aiosqlite): connection lifecycle and subscribers *)

MaxSubs == 2

MaxConnects == 2

MaxNotified == 2

\* The records the client of the adapter upserts.
AdapterRecords == {InPlayRecord("AAPL", 1, <<<<"url">>>>, s) : s \in Timestamps}

\* DBAdapter(): no connection, no subscribers; the database file is empty.
InitAdapter ==
    /\ signal_idle
    /\ replay_idle
    /\ cli_idle
    /\ scan_idle
    /\ store_idle
    /\ sink_idle
    /\ backend = "sqlite"
    /\ rows = {}
    /\ record = None
    /\ calls = 0
    /\ notify_tasks = <<>>
    /\ conn = None
    /\ connects = 0
    /\ subscribers = <<>>
    /\ delivered = <<>>
    /\ last_call = None

\* Variant of DbInit: init() connects again when there is a connection.
DbInit_always_connects ==
    /\ connects < MaxConnects
    /\ connects' = connects + 1
    /\ conn' = <<connects + 1>>
    /\ last_call' = Called("init", None, FALSE, None)
    /\ UNCHANGED <<backend, rows, record, calls, notify_tasks, subscribers,
                   delivered>>
    /\ UNCHANGED <<signal_vars, replay_vars, cli_vars, scan_vars, store_vars, sink_vars>>

\* init(), lines 35-40: nothing when there is a connection, else a new
\* connection and CREATE TABLE IF NOT EXISTS.
DbInit ==
    /\ conn /= None \/ connects < MaxConnects
    /\ IF conn /= None
       THEN UNCHANGED <<conn, connects>>
       ELSE /\ connects' = connects + 1
            /\ conn' = <<connects + 1>>
    /\ last_call' = Called("init", None, FALSE, None)
    /\ UNCHANGED <<backend, rows, record, calls, notify_tasks, subscribers,
                   delivered>>
    /\ UNCHANGED <<signal_vars, replay_vars, cli_vars, scan_vars, store_vars, sink_vars>>

\* close(), lines 44-47.
DbClose ==
    /\ conn' = None
    /\ last_call' = Called("close", None, FALSE, None)
    /\ UNCHANGED <<backend, rows, record, calls, notify_tasks, connects,
                   subscribers, delivered>>
    /\ UNCHANGED <<signal_vars, replay_vars, cli_vars, scan_vars, store_vars, sink_vars>>

\* get_inplay(ticker), lines 114-133.
GetInplay ==
    /\ \E t \in DbTickers :
          last_call' = IF conn = None
                       THEN Called("get_inplay", t, TRUE, None)
                       ELSE Called("get_inplay", t, FALSE, get_inplay(rows, t))
    /\ UNCHANGED <<backend, rows, record, calls, notify_tasks, conn, connects,
                   subscribers, delivered>>
    /\ UNCHANGED <<signal_vars, replay_vars, cli_vars, scan_vars, store_vars, sink_vars>>

\* list_inplay(), lines 137-158.
ListInplay ==
    /\ last_call' = IF conn = None
                    THEN Called("list_inplay", None, TRUE, None)
                    ELSE Called("list_inplay", None, FALSE, list_inplay(rows))
    /\ UNCHANGED <<backend, rows, record, calls, notify_tasks, conn, connects,
                   subscribers, delivered>>
    /\ UNCHANGED <<signal_vars, replay_vars, cli_vars, scan_vars, store_vars, sink_vars>>

\* subscribe_changes(callback), lines 166-167.
Subscribe ==
    /\ Len(subscribers) < MaxSubs
    /\ \E cb \in Callbacks :
          /\ subscribers' = Append(subscribers, cb)
          /\ last_call' = Called("subscribe_changes", cb, FALSE, None)
    /\ UNCHANGED <<backend, rows, record, calls, notify_tasks, conn, connects,
                   delivered>>
    /\ UNCHANGED <<signal_vars, replay_vars, cli_vars, scan_vars, store_vars, sink_vars>>

\* unsubscribe_changes(callback), lines 171-175: the ValueError of
\* list.remove is swallowed.
Unsubscribe ==
    /\ \E cb \in Callbacks :
          /\ subscribers' = list_remove(subscribers, cb).list
          /\ last_call' = Called("unsubscribe_changes", cb, FALSE, None)
    /\ UNCHANGED <<backend, rows, record, calls, notify_tasks, conn, connects,
                   delivered>>
    /\ UNCHANGED <<signal_vars, replay_vars, cli_vars, scan_vars, store_vars, sink_vars>>

\* The event loop runs the oldest _notify_subscribers task, lines 101-110:
\* the subscriber list is copied now, and every callback of the copy is
\* called with the task's record.
RunNotify ==
    /\ notify_tasks /= <<>>
    /\ delivered' = delivered \o notify_subscribers(subscribers, Head(notify_tasks))
    /\ notify_tasks' = Tail(notify_tasks)
    /\ UNCHANGED <<backend, rows, record, calls, conn, connects, subscribers,
                   last_call>>
    /\ UNCHANGED <<signal_vars, replay_vars, cli_vars, scan_vars, store_vars, sink_vars>>

\* A client that opens and closes the adapter between its calls.
NextAdapter ==
    \/ DbInit
    \/ DbClose
    \/ UpsertFrom(AdapterRecords, MaxUpserts)
    \/ GetInplay
    \/ ListInplay

SpecAdapter == InitAdapter /\ [][NextAdapter]_vars

\* create_and_init(), lines 178-181: an initialised aiosqlite adapter.
InitSubscribers ==
    /\ signal_idle
    /\ replay_idle
    /\ cli_idle
    /\ scan_idle
    /\ store_idle
    /\ sink_idle
    /\ backend = "sqlite"
    /\ rows = {}
    /\ record = None
    /\ calls = 0
    /\ notify_tasks = <<>>
    /\ conn = <<1>>
    /\ connects = 1
    /\ subscribers = <<>>
    /\ delivered = <<>>
    /\ last_call = None

\* Clients that subscribe, unsubscribe and upsert while the event loop runs
\* the notification tasks.
NextSubscribers ==
    \/ UpsertFrom(AdapterRecords, MaxNotified)
    \/ Subscribe
    \/ Unsubscribe
    \/ RunNotify

SpecSubscribers == InitSubscribers /\ [][NextSubscribers]_vars

----------------------------------------------------------------------------
(* DBAdapter (aiosqlite): concurrent upsert_inplay calls *)

MaxTasks == 3

\* An upsert_inplay call in flight: its record, where it is ("select":
\* before the SELECT of line 61; "write": past the stale test, before the
\* INSERT or UPDATE; "skipped": returned at line 66; "done": returned after
\* line 98; "failed": left by the IntegrityError of the INSERT), and the
\* existing_ts of line 63.
Task(rec, at, existing_ts) ==
    [record |-> rec, pc |-> at, existing_ts |-> existing_ts]

\* Lines 60-66: SELECT ts of the ticker and the stale test.
select_ts(table, task) ==
    LET found == {r \in table : r.ticker = task.record.ticker}
        existing_ts == IF found = {} THEN None
                       ELSE <<(CHOOSE r \in found : TRUE).ts>>
    IN IF existing_ts /= None /\ existing_ts[1] > task.record.ts
       THEN Task(task.record, "skipped", existing_ts)
       ELSE Task(task.record, "write", existing_ts)

\* Lines 81-95 with the existing_ts read earlier: INSERT when it was None,
\* which violates the PRIMARY KEY when the ticker has a row by now, else
\* UPDATE ... WHERE ticker = ?; then commit.
write_row(table, task) ==
    LET rec == task.record
        found == {r \in table : r.ticker = rec.ticker}
    IN IF task.existing_ts = None
       THEN IF found /= {} THEN [table |-> table, raised |-> TRUE]
            ELSE [table |-> table \cup {sqlite_params(rec)}, raised |-> FALSE]
       ELSE [table |-> {IF r.ticker = rec.ticker THEN sqlite_params(rec) ELSE r :
                           r \in table},
             raised |-> FALSE]

\* A client calls upsert_inplay(record) on the initialised adapter; the call
\* runs to its first await.
StartUpsert ==
    /\ Len(tasks) < MaxTasks
    /\ conn /= None
    /\ \E rec \in AdapterRecords :
          tasks' = Append(tasks, Task(rec, "select", None))
    /\ UNCHANGED pg_rows
    /\ UNCHANGED <<signal_vars, replay_vars, db_vars, cli_vars, scan_vars,
                   store_vars>>

\* A call resumes after its SELECT.
SelectTs ==
    /\ \E k \in 1..Len(tasks) :
          /\ tasks[k].pc = "select"
          /\ tasks' = [tasks EXCEPT ![k] = select_ts(rows, tasks[k])]
    /\ UNCHANGED pg_rows
    /\ UNCHANGED <<signal_vars, replay_vars, db_vars, cli_vars, scan_vars,
                   store_vars>>

\* A call resumes after its INSERT or UPDATE and its commit, and creates the
\* notification task of line 98, or is left by the exception of the INSERT.
WriteRow ==
    /\ \E k \in 1..Len(tasks) :
          /\ tasks[k].pc = "write"
          /\ LET w == write_row(rows, tasks[k])
             IN /\ rows' = w.table
                /\ tasks' = [tasks EXCEPT
                               ![k].pc = IF w.raised THEN "failed" ELSE "done"]
                /\ notify_tasks' = IF w.raised THEN notify_tasks
                                   ELSE Append(notify_tasks, tasks[k].record)
    /\ UNCHANGED <<backend, record, calls, conn, connects, subscribers,
                   delivered, last_call, pg_rows>>
    /\ UNCHANGED <<signal_vars, replay_vars, cli_vars, scan_vars, store_vars>>

NextConcurrent == StartUpsert \/ SelectTs \/ WriteRow

SpecConcurrent == InitSubscribers /\ [][NextConcurrent]_vars

----------------------------------------------------------------------------
(* Both adapters fed the same records *)

\* One record upserted into the aiosqlite adapter's table and into the
\* asyncpg adapter's, each call awaited to its end.
UpsertBoth ==
    /\ calls < MaxUpserts
    /\ calls' = calls + 1
    /\ \E rec \in InPlayRecords :
          /\ record' = rec
          /\ last_call' = Called("upsert_inplay", rec, FALSE, None)
          /\ LET u == sqlite_upsert_inplay(rows, rec)
             IN /\ rows' = u.table
                /\ notify_tasks' = IF u.written THEN Append(notify_tasks, rec)
                                   ELSE notify_tasks
          /\ pg_rows' = pg_upsert_inplay(pg_rows, rec)
    /\ UNCHANGED <<backend, conn, connects, subscribers, delivered, tasks>>
    /\ UNCHANGED <<signal_vars, replay_vars, cli_vars, scan_vars, store_vars>>

NextBoth == UpsertBoth

SpecBoth == InitSubscribers /\ [][NextBoth]_vars

----------------------------------------------------------------------------
(* app.py: scanner_loop *)

MaxCycles == 2

\* config["tickers"] of the run.
ScanTickers == <<"AAPL", "TSLA">>

\* gap_threshold_percent: the default of line 72 and that of line 112.
ScanThresholds == {10, 5}

\* hist["Close"] of tk.history(period="2d", interval="1d"), oldest first.
DailyCloses == {<<>>, <<100>>, <<100, 100>>, <<100, 110>>}

\* latest["Close"] of tk.history(period="1d", interval="1m").
MinuteCloses == {<<>>, <<105>>, <<110>>}

\* Where the scan of a ticker raises: nowhere, in the daily request (line 80)
\* or in the 1-minute request (line 86).
ScanRaises == {None, <<"hist">>, <<"latest">>}

\* f"{gap_pct:.2f}": the gap in hundredths of a percent, rounded.
format_gap(last_price, prev_close_d) ==
    <<"gap ",
      (2 * (last_price - prev_close_d) * 10000 + prev_close_d)
         \div (2 * prev_close_d),
      "%">>

\* app.py lines 42-50: REPLACE INTO inplay, ts = int(time.time()).
app_upsert_inplay(table, ticker, reason, entry, last_price, now) ==
    {r \in table : r.ticker /= ticker}
       \cup {[ticker |-> ticker, reason |-> reason, entry |-> entry,
              last_price |-> last_price, ts |-> now]}

\* Variant of scan_ticker: the row is written when gap_pct > gap_threshold.
scan_ticker_strict(table, t, hist, latest, raised, threshold, now) ==
    IF raised /= None THEN [table |-> table, printed |-> <<t>>]
    ELSE IF hist = <<>> \/ Len(hist) < 2 THEN [table |-> table, printed |-> <<>>]
    ELSE LET prev_close_d == hist[Len(hist) - 1]
             last_price == IF latest /= <<>> THEN latest[Len(latest)]
                           ELSE hist[Len(hist)]
             gap == gap_pct(last_price, prev_close_d)
         IN IF ~GeqFrac(Frac(threshold, 1), gap)
            THEN [table |-> app_upsert_inplay(
                               table, t, format_gap(last_price, prev_close_d),
                               <<format_2f(prev_close_d), " -> ",
                                 format_2f(last_price)>>,
                               last_price, now),
                  printed |-> <<>>]
            ELSE [table |-> table, printed |-> <<>>]

\* app.py lines 77-99, the body of the for loop for ticker t: `hist` and
\* `latest` are what the two history requests return, `raised` the request
\* that raises; the except clause prints the ticker and the loop goes on.
scan_ticker(table, t, hist, latest, raised, threshold, now) ==
    IF raised /= None THEN [table |-> table, printed |-> <<t>>]
    ELSE IF hist = <<>> \/ Len(hist) < 2 THEN [table |-> table, printed |-> <<>>]
    ELSE LET prev_close_d == hist[Len(hist) - 1]
             last_price == IF latest /= <<>> THEN latest[Len(latest)]
                           ELSE hist[Len(hist)]
             gap == gap_pct(last_price, prev_close_d)
         IN IF GeqFrac(gap, Frac(threshold, 1))
            THEN [table |-> app_upsert_inplay(
                               table, t, format_gap(last_price, prev_close_d),
                               <<format_2f(prev_close_d), " -> ",
                                 format_2f(last_price)>>,
                               last_price, now),
                  printed |-> <<>>]
            ELSE [table |-> table, printed |-> <<>>]

\* The application before its startup event.
InitScan ==
    /\ signal_idle
    /\ replay_idle
    /\ db_idle
    /\ cli_idle
    /\ scan_idle
    /\ store_idle
    /\ sink_idle

\* startup_event, lines 106-115: init_db, the config is loaded and
\* scanner_loop is started.
Startup ==
    /\ spc = "idle"
    /\ spc' = "scan"
    /\ scan_tickers' = ScanTickers
    /\ scan_threshold' \in ScanThresholds
    /\ UNCHANGED <<si, cycle, app_inplay, scanned, scan_printed>>
    /\ UNCHANGED <<signal_vars, replay_vars, db_vars, cli_vars, store_vars, sink_vars>>

\* One pass of the for loop of line 76.  int(time.time()) is counted in
\* sleeps since the start.
ScanTicker ==
    /\ spc = "scan"
    /\ si < Len(scan_tickers)
    /\ \E hist \in DailyCloses, latest \in MinuteCloses, raised \in ScanRaises :
          /\ raised = <<"hist">> => hist = <<>> /\ latest = <<>>
          /\ (raised = <<"latest">> \/ Len(hist) < 2) => latest = <<>>
          /\ LET t == scan_tickers[si + 1]
                 out == scan_ticker(app_inplay, t, hist, latest, raised,
                                    scan_threshold, cycle)
             IN /\ app_inplay' = out.table
                /\ scan_printed' = scan_printed \o out.printed
                /\ scanned' = [ticker |-> t, hist |-> hist, latest |-> latest,
                               raised |-> raised]
    /\ si' = si + 1
    /\ UNCHANGED <<scan_tickers, scan_threshold, spc, cycle>>
    /\ UNCHANGED <<signal_vars, replay_vars, db_vars, cli_vars, store_vars, sink_vars>>

\* Line 101 after the last ticker, and back to line 75.
ScanSleep ==
    /\ spc = "scan"
    /\ si = Len(scan_tickers)
    /\ cycle < MaxCycles
    /\ cycle' = cycle + 1
    /\ si' = 0
    /\ UNCHANGED <<scan_tickers, scan_threshold, spc, app_inplay, scanned,
                   scan_printed>>
    /\ UNCHANGED <<signal_vars, replay_vars, db_vars, cli_vars, store_vars, sink_vars>>

NextScan == Startup \/ ScanTicker \/ ScanSleep

SpecScan == InitScan /\ [][NextScan]_vars

----------------------------------------------------------------------------
(* db.py *)

MaxStoreCalls == 3

\* Tickers that get a row, and one that never does.
StoreTickers == {"AAPL", "TSLA"}

KeepTickers == StoreTickers \cup {"NVDA"}

StorePrices == 1..2

\* db.py lines 66-76: REPLACE INTO inplay, raw_obj stored as JSON text,
\* ts = int(time.time()).
upsert_inplay_raw(table, ticker, raw_obj, changes_pct, price, now) ==
    {r \in table : r.ticker /= ticker}
       \cup {[ticker |-> ticker, raw_json |-> json_dumps(raw_obj),
              changes_pct |-> changes_pct, price |-> price, ts |-> now]}

\* Variant of delete_not_inplay: an empty keep deletes nothing.
delete_not_inplay_keeps_all_on_empty(table, keep) ==
    IF keep = {} THEN table
    ELSE {r \in table : r.ticker \in keep}

\* db.py lines 147-159: DELETE FROM inplay when keep is empty, else DELETE
\* FROM inplay WHERE ticker NOT IN (keep).
delete_not_inplay(table, keep) ==
    IF keep = {} THEN {}
    ELSE table \ {r \in table : r.ticker \notin keep}

\* No db.py function has been called; the table is empty.
InitStore ==
    /\ signal_idle
    /\ replay_idle
    /\ db_idle
    /\ cli_idle
    /\ scan_idle
    /\ store_idle
    /\ sink_idle

\* One upsert_inplay_raw call.  int(time.time()) is counted in calls.
UpsertRaw ==
    /\ store_calls < MaxStoreCalls
    /\ \E t \in StoreTickers, p \in StorePrices :
          store' = upsert_inplay_raw(store, t, [symbol |-> t, price |-> p],
                                     None, <<p>>, store_calls)
    /\ keep_arg' = None
    /\ store_calls' = store_calls + 1
    /\ UNCHANGED <<signal_vars, replay_vars, db_vars, cli_vars, scan_vars, sink_vars>>

\* One delete_not_inplay(keep) call.
DeleteNotInplay ==
    /\ store_calls < MaxStoreCalls
    /\ \E keep \in SUBSET KeepTickers :
          /\ store' = delete_not_inplay(store, keep)
          /\ keep_arg' = <<keep>>
    /\ store_calls' = store_calls + 1
    /\ UNCHANGED <<signal_vars, replay_vars, db_vars, cli_vars, scan_vars, sink_vars>>

NextStore == UpsertRaw \/ DeleteNotInplay

SpecStore == InitStore /\ [][NextStore]_vars

----------------------------------------------------------------------------
(* The rules of the detector, stated one by one for the properties below *)

\* Rule n holds on `row` given its VWAP and ATR, the entry price held when
\* the row is reached (None when flat) and the premarket high.
RuleHolds(n, row, cur_vwap, cur_atr, entry, pmh) ==
    CASE n = 1 -> pmh /= None /\ row.Close > pmh[1]
      [] n = 2 -> /\ cur_vwap.den /= 0
                  /\ row.Close * cur_vwap.den > cur_vwap.num
                  /\ row.Close > row.Open
      [] n = 3 -> /\ cur_vwap.den /= 0
                  /\ row.Close * cur_vwap.den < cur_vwap.num
      [] n = 4 -> detect_long_wick(row)
      [] n = 5 -> /\ entry /= None
                  /\ cur_atr.den /= 0
                  /\ 2 * cur_atr.den * row.Close
                        <= 2 * cur_atr.den * entry[1] - 3 * cur_atr.num

RuleKind == <<"ENTRY", "ENTRY", "EXIT", "EXIT", "EXIT">>

RuleReason ==
    <<"break_premarket", "vwap_reclaim", "vwap_loss", "long_wick", "atr_stop">>

\* The first rule that holds on the row, 0 when none does.
FirstRule(row, cur_vwap, cur_atr, entry, pmh) ==
    LET S == {n \in 1..5 : RuleHolds(n, row, cur_vwap, cur_atr, entry, pmh)}
    IN IF S = {} THEN 0 ELSE CHOOSE n \in S : \A m \in S : n <= m

\* The step is one iteration of the for loop.
IsIteration == pc = "loop" /\ i' = i + 1

\* The first rule holding on the row the iteration is about to consume.
NextRule ==
    FirstRule(df[i + 1], vwap[i + 1], atr[i + 1], entry_price_per_t,
              premarket_high)

NextEvent(n) == Event(df[i + 1].ts, RuleKind[n], RuleReason[n], df[i + 1].Close)

LastEvent == events[Len(events)]

----------------------------------------------------------------------------
(* C1 *)

\* C1: five_min_signals emits at most one event per bar: no two events share
\* a bar timestamp, and there are never more events than bars consumed (so
\* no more events in a returned list than rows in the frame it was given).
Thm_C1_OneEventPerBar ==
    /\ \A k1, k2 \in 1..Len(events) :
          events[k1][1] = events[k2][1] => k1 = k2
    /\ Len(events) <= i
    /\ i <= Len(df)
    /\ \A c \in 1..Len(returned) :
          /\ Len(returned[c].result) <= Len(returned[c].arg)
          /\ \A k1, k2 \in 1..Len(returned[c].result) :
                returned[c].result[k1][1] = returned[c].result[k2][1] => k1 = k2

\* A call returned with an event on every one of several bars.
Wit_C1_EventOnEveryBar ==
    /\ pc = "done"
    /\ Len(df) >= 2
    /\ Len(returned) = 1
    /\ Len(returned[1].result) = Len(df)

----------------------------------------------------------------------------
(* C2 *)

\* C2: on every bar the event emitted is that of the first rule, in the
\* order break_premarket, vwap_reclaim, vwap_loss, long_wick, atr_stop, whose
\* condition holds on the bar, and no event is emitted when none holds; so a
\* bar that closes above the premarket high and has a long upper wick emits
\* only ENTRY/break_premarket.
Thm_C2_FirstRuleWins ==
    [][IsIteration =>
          /\ NextRule = 0 => events' = events
          /\ NextRule /= 0 => events' = Append(events, NextEvent(NextRule))
          /\ (RuleHolds(1, df[i + 1], vwap[i + 1], atr[i + 1],
                         entry_price_per_t, premarket_high)
                 /\ detect_long_wick(df[i + 1]))
               => events' = Append(events, NextEvent(1))]_vars

\* The last bar consumed closed above the premarket high with a long upper
\* wick, and its event is ENTRY/break_premarket.
Wit_C2_BreakWithLongWick ==
    /\ pc = "loop"
    /\ i >= 1
    /\ premarket_high /= None
    /\ df[i].Close > premarket_high[1]
    /\ detect_long_wick(df[i])
    /\ events /= <<>>
    /\ LastEvent = Event(df[i].ts, "ENTRY", "break_premarket", df[i].Close)

----------------------------------------------------------------------------
(* C3 *)

\* C3: the position state starts flat (None), is Entered(close of the bar)
\* after an ENTRY and flat after an EXIT: at every point of a pass
\* entry_price_per_t is None exactly when no event was emitted or the last
\* event is an EXIT, and holds the price of the last event when that is an
\* ENTRY; every event carries the close of its bar.
Thm_C3_PositionFollowsLastEvent ==
    /\ entry_price_per_t =
          IF events = <<>> THEN None
          ELSE IF LastEvent[2] = "ENTRY" THEN <<LastEvent[4]>> ELSE None
    /\ \A k \in 1..Len(events) :
          /\ events[k][2] \in {"ENTRY", "EXIT"}
          /\ \E j \in 1..i : /\ df[j].ts = events[k][1]
                              /\ df[j].Close = events[k][4]
    /\ (pc = "loop" /\ i = 0) => entry_price_per_t = None

\* Two ENTRY events in a row at different prices: the state holds the later.
Wit_C3_EntryOverwritten ==
    /\ Len(events) = 2
    /\ events[1][2] = "ENTRY"
    /\ events[2][2] = "ENTRY"
    /\ events[1][4] /= events[2][4]
    /\ entry_price_per_t = <<events[2][4]>>

----------------------------------------------------------------------------
(* C4 *)

\* C4: the vwap_loss and long_wick exits do not depend on the position: a
\* bar on which neither entry rule holds and whose close is below its VWAP
\* emits EXIT/vwap_loss, and one on which rules 1-3 fail and the upper-wick
\* ratio is >= 0.6 emits EXIT/long_wick, flat or entered; while flat no
\* atr_stop is emitted.
Thm_C4_ExitsNotGated ==
    [][IsIteration =>
          LET row == df[i + 1]
              H(n) == RuleHolds(n, row, vwap[i + 1], atr[i + 1],
                                entry_price_per_t, premarket_high)
          IN /\ (~H(1) /\ ~H(2) /\ H(3)) => events' = Append(events, NextEvent(3))
             /\ (~H(1) /\ ~H(2) /\ ~H(3) /\ H(4))
                   => events' = Append(events, NextEvent(4))
             /\ entry_price_per_t = None
                   => (events' = events \/ events'[Len(events')][3] /= "atr_stop")]_vars

\* Both exits emitted with no ENTRY before them.
Wit_C4_ExitsWhileFlat ==
    /\ Len(events) = 2
    /\ events[1][2] = "EXIT" /\ events[1][3] = "long_wick"
    /\ events[2][2] = "EXIT" /\ events[2][3] = "vwap_loss"

----------------------------------------------------------------------------
(* C5 *)

\* C5: EXIT/atr_stop is emitted on a bar exactly when rules 1-4 do not hold
\* on it, the state is Entered(entry_price) and close <= entry_price - 1.5 *
\* ATR of the bar; every atr_stop event directly follows an ENTRY event.
Thm_C5_AtrStop ==
    [][IsIteration =>
          LET row == df[i + 1]
              H(n) == RuleHolds(n, row, vwap[i + 1], atr[i + 1],
                                entry_price_per_t, premarket_high)
          IN /\ (events' = Append(events, NextEvent(5)))
                  <=> (~H(1) /\ ~H(2) /\ ~H(3) /\ ~H(4) /\ H(5))
             /\ (events' /= events /\ events'[Len(events')][3] = "atr_stop")
                  => /\ events' = Append(events, NextEvent(5))
                     /\ entry_price_per_t /= None
             /\ \A k \in 1..Len(events') :
                  events'[k][3] = "atr_stop"
                     => k > 1 /\ events'[k - 1][2] = "ENTRY"]_vars

\* An atr_stop was emitted.
Wit_C5_AtrStopEmitted ==
    /\ events /= <<>>
    /\ LastEvent = Event(df[i].ts, "EXIT", "atr_stop", df[i].Close)
    /\ entry_price_per_t = None

----------------------------------------------------------------------------
(* C6 *)

\* C6: no lookahead.  For every k, the VWAP and ATR values of the first k
\* bars, and the events emitted on them, are those that five_min_signals
\* produces when given the first k bars alone; so they are the same for any
\* two frames that agree on their first k bars, whatever bars follow.
\* (Stated where the loop has consumed the whole frame.)
Thm_C6_NoLookahead ==
    (pc = "loop" /\ i = Len(df)) =>
        \A k \in 1..Len(df) :
            LET pre == SubSeq(df, 1, k)
            IN /\ rolling_vwap(pre) = SubSeq(vwap, 1, k)
               /\ rolling_atr(true_range(pre)) = SubSeq(atr, 1, k)
               /\ five_min_signals(pre, premarket_high)
                     = SelectSeq(events, LAMBDA e : e[1] <= df[k].ts)

\* A pass over two bars that emitted on both, where the first bar has no
\* VWAP yet and the second has one.
Wit_C6_LaterBarDiffers ==
    /\ pc = "loop"
    /\ Len(df) >= 2
    /\ i = Len(df)
    /\ IsNaN(vwap[1])
    /\ ~IsNaN(vwap[2])
    /\ Len(events) >= 2
    /\ events[1][1] = df[1].ts

----------------------------------------------------------------------------
(* C7 *)

\* C7: the true range of every bar is max(high - low, |high - prev_close|,
\* |low - prev_close|), prev_close being the previous bar's close and, for
\* the first bar, its own open.
Cex_C7_TrueRangeOfThree ==
    pc = "loop" =>
        \A j \in 1..Len(df) :
            LET pcl == IF j = 1 THEN df[1].Open ELSE df[j - 1].Close
            IN tr[j] = Max(df[j].High - df[j].Low,
                           Max(Abs(df[j].High - pcl), Abs(df[j].Low - pcl)))

----------------------------------------------------------------------------
(* C8 *)

\* C8: one ATR value per bar, and the ATR of bar j (counted from 1) is the
\* arithmetic mean of the tr values of bars max(1, j-13)..j: a trailing
\* window of 14, shorter while fewer than 14 bars exist, never empty.
Thm_C8_AtrWindowMean ==
    pc = "loop" =>
        /\ Len(atr) = Len(df)
        /\ \A j \in 1..Len(df) :
              LET lo == IF j > 13 THEN j - 13 ELSE 1
                  n == j - lo + 1
              IN /\ atr[j].den /= 0
                 /\ atr[j].num * n = SumSeq(tr, lo, j) * atr[j].den

\* A frame of more than 14 bars whose first true range is not zero: the
\* window of bar 15 has left it behind.
Wit_C8_WindowSlid ==
    /\ pc = "loop"
    /\ Len(df) >= 15
    /\ tr[1] > 0
    /\ atr[15].num * 15 /= SumSeq(tr, 1, 15) * atr[15].den

----------------------------------------------------------------------------
(* C9 *)

----------------------------------------------------------------------------
(* C10 *)

\* C10: calling five_min_signals again on the same frame and premarket_high
\* returns the same event list, and no step of a call changes the caller's
\* frame.
Thm_C10_SameResultInputKept ==
    [][/\ (pc /= "input" \/ pc' /= "input") => bars' = bars
       /\ \A c \in 1..Len(returned') :
             returned'[c].result = returned'[1].result]_vars

\* Two calls returned events for a frame whose rows were not in timestamp
\* order or had missing cells.
Wit_C10_TwoCallsOnRawFrame ==
    /\ pc = "done"
    /\ Len(returned) = 2
    /\ returned[2].result /= <<>>
    /\ bars /= df

----------------------------------------------------------------------------
(* C11 *)

\* C11: the events of five_min_signals, while they are collected and once
\* returned, are in strictly increasing bar-timestamp order, whatever the
\* order of the rows of the caller's frame.
Thm_C11_EventsInTimestampOrder ==
    /\ \A j \in 1..Len(events) - 1 : events[j][1] < events[j + 1][1]
    /\ \A c \in 1..Len(returned) :
          \A j \in 1..Len(returned[c].result) - 1 :
             returned[c].result[j][1] < returned[c].result[j + 1][1]

\* A frame whose later bar comes first returned two events.
Wit_C11_ReversedRowsTwoEvents ==
    /\ pc = "done"
    /\ Len(bars) = 2
    /\ bars[1].ts > bars[2].ts
    /\ Len(returned[1].result) = 2

----------------------------------------------------------------------------
(* C12 *)

\* C12: a call on a frame that is empty, or whose every row lacks its close
\* or its volume, raises nothing and returns the empty list.
Thm_C12_NothingFromEmptyFrame ==
    (pc /= "input" /\ \A j \in 1..Len(bars) :
                         bars[j].Close = NaN \/ bars[j].Volume = NaN)
        => /\ pc = "done"
           /\ \A c \in 1..Len(returned) : returned[c].result = <<>>

\* A call returned on a frame of two rows, one that lacks only its close and
\* one that lacks only its volume.
Wit_C12_RowsLackCloseOrVolume ==
    /\ pc = "done"
    /\ Len(bars) = 2
    /\ \E j, k \in 1..2 :
          /\ bars[j].Close = NaN /\ bars[j].Volume /= NaN
          /\ bars[k].Close /= NaN /\ bars[k].Volume = NaN
    /\ returned[1].result = <<>>

----------------------------------------------------------------------------
(* C15 *)

\* A frame is malformed when a bar breaks Low <= Open, Close <= High or when
\* the timestamps of its rows are not strictly increasing.
Malformed(b) ==
    \/ \E j \in 1..Len(b) :
          \/ b[j].High < Max(b[j].Open, b[j].Close)
          \/ b[j].Low > Min(b[j].Open, b[j].Close)
    \/ \E j \in 1..Len(b) - 1 : b[j].ts >= b[j + 1].ts

\* C15: a call on a malformed frame never returns an event list; it ends
\* with an error.
Cex_C15_MalformedFrameRejected ==
    Malformed(bars) => /\ pc /= "done"
                       /\ returned = <<>>

----------------------------------------------------------------------------
(* C13 *)

\* C13: an exception raised while a retained symbol is processed is caught
\* and the remaining symbols are still processed: the run never ends on the
\* exception of a 5-minute fetch with retained symbols left unreplayed.
Cex_C13_SymbolFailureContained ==
    ~(rpc = "raised" /\ error = <<"history">> /\ ri < Len(top))

----------------------------------------------------------------------------
(* C14 *)

\* C14: a failed write to the sink is not fatal: the run never ends on the
\* exception of upsert_inplay with events or symbols left.
Cex_C14_SinkFailureNotFatal ==
    ~(/\ rpc = "raised"
      /\ error = <<"upsert_inplay">>
      /\ (ei < Len(ticker_events) \/ ri < Len(top)))

----------------------------------------------------------------------------
(* C16 *)

\* The tickers of a list of candidates.
TickersOf(res) == {res[k][1] : k \in 1..Len(res)}

\* C16: every candidate carries gap_pct = (open - prev_close) / prev_close
\* x 100; the ranking step keeps exactly the candidates whose gap_pct is at
\* least the threshold, largest first, and top is the first top_n of them;
\* only the tickers of top are fetched, in that order; and a run that retains
\* none ends at once, with no 5-minute fetch and no write to the sink.
Thm_C16_GapRanking ==
    [][/\ \A k \in 1..Len(results') :
             results'[k][2].num * results'[k][3]
                 = (results'[k][4] - results'[k][3]) * 100 * results'[k][2].den
       /\ (rpc = "gaps" /\ rpc' \in {"replay", "done"}) =>
             /\ \A k \in 1..Len(results) :
                   (\E j \in 1..Len(results') : results'[j] = results[k])
                       <=> (results[k][2].num >= gap_threshold * results[k][2].den)
             /\ Len(results') <= Len(results)
             /\ \A j \in 1..Len(results') :
                   \E k \in 1..Len(results) : results'[j] = results[k]
             /\ \A j \in 1..Len(results') - 1 :
                   results'[j][2].num * results'[j + 1][2].den
                       >= results'[j + 1][2].num * results'[j][2].den
             /\ Len(top') = Min(top_n, Len(results'))
             /\ \A j \in 1..Len(top') : top'[j] = results'[j]
             /\ (results' = <<>>) => rpc' = "done"
       /\ Len(fetched_5m') <= Len(top')
       /\ \A k \in 1..Len(fetched_5m') : fetched_5m'[k] = top'[k][1]
       /\ (rpc' = "done" /\ top' /= <<>>) => Len(fetched_5m') = Len(top')
       /\ (rpc' = "done" /\ top' = <<>>) =>
             fetched_5m' = <<>> /\ inplay' = {} /\ printed' = <<>>]_vars

\* Two symbols were retained and the run replayed only the first of the
\* ranking, the second configured ticker; the other one gapped from 100 to
\* 110, exactly the threshold of 10.
Wit_C16_SecondTickerRankedFirst ==
    /\ rpc = "done"
    /\ top_n = 1
    /\ gap_threshold = 10
    /\ Len(results) = 2
    /\ results[1][1] = "TSLA"
    /\ results[2] = <<"AAPL", Frac(1000, 100), 100, 110>>
    /\ fetched_5m = <<"TSLA">>
    /\ printed /= <<>>

----------------------------------------------------------------------------
(* C17 *)

\* The daily history h has no row dated `day`, or its first row is.
LacksPriorDay(h, day) ==
    \/ \A k \in 1..Len(h) : h[k].date /= day
    \/ h /= <<>> /\ h[1].date = day

\* C17: with a target date, the gap step of a symbol whose daily history has
\* no row of that date, or none before it, adds no candidate, while a newly
\* fetched history that has both adds the candidate of that symbol whatever
\* happened to the symbols before; results only ever gains the candidate of
\* the symbol of the gap step, and only symbols of results are fetched.
Thm_C17_NoTargetRowNoCandidate ==
    [][/\ (target_date /= None /\ gi' = gi + 1) =>
             /\ LacksPriorDay(d_hist', target_date[1]) => results' = results
             /\ (d_hist' /= d_hist /\ ~LacksPriorDay(d_hist', target_date[1])) =>
                   /\ Len(results') = Len(results) + 1
                   /\ results'[Len(results')][1] = tickers[gi']
                   /\ SubSeq(results', 1, Len(results)) = results
       /\ (gi' = gi) => TickersOf(results') \subseteq TickersOf(results)
       /\ \A k \in 1..Len(fetched_5m') : fetched_5m'[k] \in TickersOf(results')
       /\ \A k \in 1..Len(printed') : printed'[k].ticker \in TickersOf(results')
      ]_vars

\* A run for a target date ended after it replayed the first ticker only: the
\* daily history of the second one starts at the target date.
Wit_C17_FirstDailyRowIsTarget ==
    /\ rpc = "done"
    /\ target_date = <<TargetDay>>
    /\ top_n = 2
    /\ Len(d_hist) = 1
    /\ d_hist[1].date = TargetDay
    /\ fetched_5m = <<"AAPL">>
    /\ printed /= <<>>

----------------------------------------------------------------------------
(* C18 *)

\* The row is stamped before 09:30 of its day.
BeforeOpen(r) == Hour(r.ts) * 60 + Minute(r.ts) < 9 * 60 + 30

\* C18: while the events of a symbol are written, pm_high is the largest
\* High of the rows of the whole df_5m stamped before 09:30, of any day, and
\* None when there is none; the events are those of the detection pass over
\* day_bars with that value.
Thm_C18_PremarketHighOfWholeSeries ==
    rpc \in {"events", "sleep"} =>
        LET pre == {j \in 1..Len(df_5m) : BeforeOpen(df_5m[j])}
        IN /\ pre = {} => pm_high = None
           /\ pre /= {} =>
                 /\ pm_high /= None
                 /\ \E j \in pre : df_5m[j].High = pm_high[1]
                 /\ \A j \in pre : df_5m[j].High <= pm_high[1]
           /\ ticker_events = five_min_signals(day_bars, pm_high)

\* The premarket high 2 comes from the day before the target day, whose own
\* premarket bar reached 1 only, and the 09:30 bar, at 3, is not part of it.
Wit_C18_HighFromPriorDay ==
    /\ rpc = "events"
    /\ pm_high = <<2>>
    /\ \E j \in 1..Len(df_5m) :
          df_5m[j].ts = Stamp(PriorDay, 8, 55) /\ df_5m[j].High = 2
    /\ \E j \in 1..Len(day_bars) :
          day_bars[j].ts = Stamp(TargetDay, 9, 25) /\ day_bars[j].High = 1
    /\ \E j \in 1..Len(day_bars) :
          day_bars[j].ts = Stamp(TargetDay, 9, 30) /\ day_bars[j].High = 3

----------------------------------------------------------------------------
(* C20 *)

\* The row r of the sink holds the event ev: reason, entry and last_price.
RowHolds(r, ev) ==
    /\ r.reason = reason_str(ev)
    /\ r.entry = format_2f(ev[4])
    /\ r.last_price = ev[4]

\* C20: in every state of a run, aborted or not, the sink holds at most one
\* row per ticker, every row holds one whole event already printed for its
\* ticker, and writing that event again leaves one row for the ticker with
\* the same reason, entry and last_price.
Thm_C20_SinkNeverCorrupted ==
    /\ \A r1, r2 \in inplay : r1.ticker = r2.ticker => r1 = r2
    /\ \A r \in inplay :
          \E k \in 1..Len(printed) :
             /\ printed[k].ticker = r.ticker
             /\ RowHolds(r, printed[k].ev)
             /\ \A now \in clock..MaxClock :
                   LET again == upsert_inplay(inplay, r.ticker,
                                    reason_str(printed[k].ev),
                                    format_2f(printed[k].ev[4]),
                                    printed[k].ev[4], now)
                   IN /\ Cardinality(again) = Cardinality(inplay)
                      /\ \A q \in again :
                            q.ticker = r.ticker => RowHolds(q, printed[k].ev)

\* The run was aborted between the two events of its second ticker, with the
\* first ticker's events written.
Wit_C20_AbortedBetweenEvents ==
    /\ rpc = "aborted"
    /\ Cardinality(inplay) = 2
    /\ ri = 2
    /\ ei = 1
    /\ Len(ticker_events) = 2
    /\ Len(printed) >= 2

----------------------------------------------------------------------------
(* C19 *)

\* The stored ts of ticker t in table, 0 when it has no row.
StoredTs(table, t) ==
    IF \E r \in table : r.ticker = t
    THEN (CHOOSE r \in table : r.ticker = t).ts ELSE 0

\* C19: an upsert_inplay call of either adapter, run to its end, inserts the
\* record when its ticker has no row, replaces the row by the record when
\* the stored ts is at most the record's, and changes nothing when the
\* stored ts is greater; the rows of the other tickers are left alone, no
\* stored ts ever decreases, there is one row per ticker, and the same
\* record applied a second time changes nothing.
Thm_C19_UpsertOrderedByTs ==
    [][calls' = calls + 1 =>
          LET rec == record'
              old == {r \in rows : r.ticker = rec.ticker}
              new == {r \in rows' : r.ticker = rec.ticker}
              taken == /\ Cardinality(new) = 1
                       /\ \A r \in new : r.price = rec.price /\ r.ts = rec.ts
          IN /\ old = {} => taken
             /\ \A r \in old : r.ts <= rec.ts => taken
             /\ \A r \in old : r.ts > rec.ts => rows' = rows
             /\ {r \in rows' : r.ticker /= rec.ticker}
                    = {r \in rows : r.ticker /= rec.ticker}
             /\ \A t \in DbTickers : StoredTs(rows', t) >= StoredTs(rows, t)
             /\ \A r1, r2 \in rows' : r1.ticker = r2.ticker => r1 = r2
             /\ record = None \/ (record' = record => rows' = rows)]_vars

\* Three calls were made; the last record is older than the row of its
\* ticker, which holds another price: it was rejected.
Wit_C19_StaleRecordRejected ==
    /\ calls = 3
    /\ record /= None
    /\ \E r \in rows :
          r.ticker = record.ticker /\ r.ts > record.ts /\ r.price /= record.price
    /\ Cardinality(rows) = 2

----------------------------------------------------------------------------
(* C21 *)

\* The text is a calendar date written year-month-day.
IsCalendarDate(text) ==
    /\ Len(text) = 5
    /\ text[2] = "-" /\ text[4] = "-"
    /\ text[1] \in 1..9999
    /\ text[3] \in 1..12
    /\ text[5] \in 1..28
          \/ (text[5] \in 29..30 /\ text[3] /= 2)
          \/ (text[5] = 31 /\ text[3] \in {1, 3, 5, 7, 8, 10, 12})
          \/ (text[5] = 29 /\ text[3] = 2 /\ IsLeap(text[1]))

\* C21: once the script has acted on a --date value that is no valid date,
\* it has exited with status 1 and nothing else has happened: no table
\* created, no history fetched, nothing printed or written.
Cex_C21_InvalidDateExits ==
    (date_arg /= None /\ ~IsCalendarDate(date_arg[1]) /\ rpc /= "cli") =>
        /\ rpc = "exited"
        /\ exit_status = <<1>>
        /\ ~db_created
        /\ gi = 0
        /\ fetched_5m = <<>>
        /\ printed = <<>>
        /\ inplay = {}

----------------------------------------------------------------------------
(* C22 *)

\* The printed events whose write to the sink returned: all of them, but the
\* last one when upsert_inplay raised on it.
WrittenLog ==
    IF error = <<"upsert_inplay">> THEN SubSeq(printed, 1, Len(printed) - 1)
    ELSE printed

\* The place of ticker t in top.
RankOf(t) == CHOOSE k \in 1..Len(top) : top[k][1] = t

\* C22: the writes follow the ranking, largest gap first, and within a
\* symbol the bar timestamps; while the run sleeps the event the delay
\* follows is the last one written and is in the sink, and before an event
\* is written exactly the earlier events of its symbol have been.
Thm_C22_WritesInRankedOrder ==
    /\ \A k, l \in 1..Len(WrittenLog) :
          k < l =>
             LET a == WrittenLog[k]
                 b == WrittenLog[l]
             IN /\ RankOf(a.ticker) <= RankOf(b.ticker)
                /\ GeqFrac(top[RankOf(a.ticker)][2], top[RankOf(b.ticker)][2])
                /\ a.ticker = b.ticker => a.ev[1] < b.ev[1]
    /\ rpc \in {"events", "sleep"} =>
          LET mine == {k \in 1..Len(WrittenLog) :
                          WrittenLog[k].ticker = top[ri][1]}
              done == IF rpc = "sleep" THEN ei ELSE ei - 1
          IN /\ Cardinality(mine) = done
             /\ \A k \in mine :
                   \E j \in 1..done : WrittenLog[k].ev = ticker_events[j]
             /\ rpc = "sleep" =>
                   /\ WrittenLog[Len(WrittenLog)].ev = ticker_events[ei]
                   /\ \E r \in inplay :
                         /\ r.ticker = top[ri][1]
                         /\ r.reason = reason_str(ticker_events[ei])
                         /\ r.last_price = ticker_events[ei][4]

\* The run ended after writing the events of the second configured ticker,
\* which gapped more, before those of the first, two of them for one ticker.
Wit_C22_LargerGapWrittenFirst ==
    /\ rpc = "done"
    /\ Len(top) = 2
    /\ ~GeqFrac(top[2][2], top[1][2])
    /\ top[1][1] = "TSLA"
    /\ Len(printed) = 3
    /\ printed[1].ticker = "TSLA"
    /\ printed[3].ticker = "AAPL"

----------------------------------------------------------------------------
(* C23 *)

\* The last event written for ticker t.
LastWritten(t) ==
    LET mine == {k \in 1..Len(WrittenLog) : WrittenLog[k].ticker = t}
    IN WrittenLog[CHOOSE k \in mine : \A m \in mine : m <= k].ev

\* C23: at every point of a run the sink has exactly one row for each symbol
\* with a written event and none for the others, and that row holds the
\* kind:reason and the price of the last event written for the symbol; when
\* the last event of a symbol has been written the row holds that one.
Thm_C23_RowHoldsLastEvent ==
    /\ {r.ticker : r \in inplay}
          = {WrittenLog[k].ticker : k \in 1..Len(WrittenLog)}
    /\ \A r \in inplay :
          /\ \A q \in inplay : q.ticker = r.ticker => q = r
          /\ r.reason = reason_str(LastWritten(r.ticker))
          /\ r.last_price = LastWritten(r.ticker)[4]
          /\ r.entry = format_2f(LastWritten(r.ticker)[4])
    /\ (rpc = "sleep" /\ ei = Len(ticker_events)) =>
          \E r \in inplay :
             /\ r.ticker = top[ri][1]
             /\ r.reason = reason_str(ticker_events[Len(ticker_events)])
             /\ r.last_price = ticker_events[Len(ticker_events)][4]

\* The second event of a symbol, an exit at another price, has replaced its
\* entry in the sink.
Wit_C23_ExitOverwroteEntry ==
    /\ rpc = "sleep"
    /\ ei = 2
    /\ ticker_events[1][2] = "ENTRY"
    /\ ticker_events[2][2] = "EXIT"
    /\ ticker_events[1][4] /= ticker_events[2][4]
    /\ \E r \in inplay :
          r.ticker = top[ri][1] /\ r.reason = reason_str(ticker_events[2])

----------------------------------------------------------------------------
(* C24 *)

\* C24: with a target date, day_bars is exactly the rows of df_5m dated the
\* target date and the events come from the detection pass over them, so
\* every event printed or in the sink is stamped on the target date; and the
\* fetch of a history with no row of that date adds no event, writes
\* nothing, and moves on to the next symbol.
Thm_C24_OnlyTargetDateBars ==
    [][target_date /= None =>
          /\ \A k \in 1..Len(printed') : Date(printed'[k].ev[1]) = target_date[1]
          /\ \A j \in 1..Len(ticker_events') :
                Date(ticker_events'[j][1]) = target_date[1]
          /\ rpc' \in {"events", "sleep"} =>
                /\ \A j \in 1..Len(day_bars') : Date(day_bars'[j].ts) = target_date[1]
                /\ \A j \in 1..Len(df_5m') :
                      Date(df_5m'[j].ts) = target_date[1]
                          => \E k \in 1..Len(day_bars') : day_bars'[k] = df_5m'[j]
                /\ \A k \in 1..Len(day_bars') :
                      \E j \in 1..Len(df_5m') : day_bars'[k] = df_5m'[j]
          /\ (/\ Len(fetched_5m') = Len(fetched_5m) + 1
              /\ rpc' /= "raised"
              /\ \A j \in 1..Len(df_5m') : Date(df_5m'[j].ts) /= target_date[1]) =>
                /\ printed' = printed
                /\ inplay' = inplay
                /\ rpc' = "replay"
                /\ ri' = ri + 1]_vars

\* The first of two retained symbols has bars on the prior day only, the
\* 10:00 one above the premarket high; nothing was printed and the run is
\* about to fetch the second symbol.
Wit_C24_PriorDayBarsSkipped ==
    /\ target_date = <<TargetDay>>
    /\ rpc = "replay"
    /\ Len(top) = 2
    /\ ri = 2
    /\ Len(fetched_5m) = 1
    /\ Len(df_5m) = 2
    /\ df_5m[1] = Row(Stamp(PriorDay, 8, 55), 1, 1, 1, 1, 1)
    /\ df_5m[2] = Row(Stamp(PriorDay, 10, 0), 2, 2, 2, 2, 1)
    /\ printed = <<>>

----------------------------------------------------------------------------
(* C25 *)

\* The event the iteration appends, if it appends one.
Emits(reason) ==
    /\ Len(events') = Len(events) + 1
    /\ events'[Len(events')][3] = reason

----------------------------------------------------------------------------
(* C26 *)

\* C26: a bar on which none of the five rules holds emits no event and
\* leaves the position as it was: Flat stays Flat, Entered keeps its entry
\* price.
Thm_C26_IdleBarKeepsState ==
    [][(IsIteration /\ NextRule = 0) =>
          /\ events' = events
          /\ entry_price_per_t' = entry_price_per_t]_vars

\* Two bars consumed: the first entered, the second matched no rule, and the
\* position still holds the first bar's close.
Wit_C26_EnteredAcrossIdleBar ==
    /\ pc = "loop"
    /\ i = 2
    /\ Len(events) = 1
    /\ events[1][1] = df[1].ts
    /\ events[1][2] = "ENTRY"
    /\ entry_price_per_t = <<df[1].Close>>

----------------------------------------------------------------------------
(* C27 *)

\* The step runs a _notify_subscribers task.
IsNotifyRun == Len(notify_tasks') < Len(notify_tasks)

\* The step is a call of the adapter method `op`.
IsCall(op) == ~IsNotifyRun /\ last_call' /= None /\ last_call'.op = op

\* C27 as stated: every upsert_inplay call that returns schedules the
\* notification of the subscribers with its record.
Cex_C27_NotifiedForEachUpsert ==
    [][(IsCall("upsert_inplay") /\ ~last_call'.raised)
          => notify_tasks' = Append(notify_tasks, record')]_vars

\* C27, amended: an upsert_inplay call schedules one notification with its
\* record exactly when it wrote the record, and none when it was skipped as
\* stale; the write does not depend on the subscribers.  When the
\* notification runs, every callback in the subscriber list at that moment
\* is called once per registration with the record, in list order, whether
\* or not a callback before it raised.  unsubscribe_changes removes one
\* registration of the callback and is a no-op when there is none, and
\* subscribe_changes adds one.
Thm_C27_NotifyRegisteredOnWrite ==
    [][/\ IsCall("upsert_inplay") =>
            LET u == sqlite_upsert_inplay(rows, record')
            IN /\ rows' = u.table
               /\ notify_tasks' = IF u.written THEN Append(notify_tasks, record')
                                  ELSE notify_tasks
               /\ u.written <=> sqlite_params(record') \in rows'
               /\ UNCHANGED <<subscribers, delivered>>
       /\ IsNotifyRun =>
            /\ Len(delivered') = Len(delivered) + Len(subscribers)
            /\ \A k \in 1..Len(subscribers) :
                  /\ delivered'[Len(delivered) + k].callback = subscribers[k]
                  /\ delivered'[Len(delivered) + k].record = Head(notify_tasks)
            /\ SubSeq(delivered', 1, Len(delivered)) = delivered
            /\ UNCHANGED <<rows, subscribers>>
       /\ IsCall("unsubscribe_changes") =>
            LET cb == last_call'.arg
                registered == \E k \in 1..Len(subscribers) : subscribers[k] = cb
            IN /\ ~last_call'.raised
               /\ ~registered => subscribers' = subscribers
               /\ registered =>
                     /\ Len(subscribers') = Len(subscribers) - 1
                     /\ \A c \in Callbacks \ {cb} :
                           SelectSeq(subscribers', LAMBDA x : x = c)
                              = SelectSeq(subscribers, LAMBDA x : x = c)
               /\ UNCHANGED <<rows, notify_tasks, delivered>>
       /\ IsCall("subscribe_changes") =>
            /\ subscribers' = Append(subscribers, last_call'.arg)
            /\ UNCHANGED <<rows, notify_tasks, delivered>>]_vars

\* Two upserts were made and both notifications have run: the first record
\* was written while on_error was registered before on_change, and both were
\* called with it; on_error was then unsubscribed, and the second upsert,
\* skipped as stale, called nobody.
Wit_C27_FailingCallbackAndStaleSkip ==
    /\ calls = 2
    /\ notify_tasks = <<>>
    /\ Len(delivered) = 2
    /\ delivered[1].callback = "on_error" /\ ~delivered[1].task
    /\ delivered[2].callback = "on_change" /\ delivered[2].task
    /\ delivered[1].record.ts = 2 /\ delivered[2].record.ts = 2
    /\ record.ts = 1
    /\ rows = {sqlite_params(delivered[1].record)}
    /\ subscribers = <<"on_change">>
    /\ last_call.op = "upsert_inplay" /\ ~last_call.raised

----------------------------------------------------------------------------
(* C28 *)

\* C28: on the aiosqlite adapter upsert_inplay, get_inplay and list_inplay
\* raise RuntimeError and change nothing while there is no connection
\* (before init() or after close()), and work whenever there is one, also
\* after a close() followed by init(); init() with a connection keeps that
\* connection and changes nothing, init() without one opens a new connection
\* on the same table; close() drops the connection and is a no-op when there
\* is none.
Thm_C28_Lifecycle ==
    [][/\ \A op \in {"upsert_inplay", "get_inplay", "list_inplay"} :
             IsCall(op) =>
                /\ last_call'.raised <=> conn = None
                /\ conn' = conn
                /\ conn = None => UNCHANGED <<rows, notify_tasks>>
       /\ (IsCall("upsert_inplay") /\ conn /= None) =>
             rows' = sqlite_upsert_inplay(rows, last_call'.arg).table
       /\ (IsCall("get_inplay") /\ conn /= None) =>
             /\ rows' = rows
             /\ last_call'.value =
                   IF \E r \in rows : r.ticker = last_call'.arg
                   THEN <<row_to_record(CHOOSE r \in rows :
                                           r.ticker = last_call'.arg)>>
                   ELSE None
       /\ (IsCall("list_inplay") /\ conn /= None) =>
             /\ rows' = rows
             /\ Cardinality(last_call'.value) = Cardinality(rows)
       /\ IsCall("init") =>
             /\ ~last_call'.raised
             /\ conn /= None => conn' = conn /\ connects' = connects
             /\ conn = None =>
                   conn' /= None /\ conn'[1] > connects /\ connects' = conn'[1]
             /\ UNCHANGED <<rows, notify_tasks>>
       /\ IsCall("close") =>
             /\ ~last_call'.raised
             /\ conn' = None
             /\ UNCHANGED <<rows, notify_tasks, connects>>]_vars

\* The adapter was closed and initialised again; the second upsert, made
\* without a connection, left the row of the first in place although its ts
\* was greater, and get_inplay on the new connection returns that row.
Wit_C28_WorksAgainAfterReinit ==
    /\ connects = 2
    /\ conn = <<2>>
    /\ calls = 2
    /\ record.ts = 2
    /\ rows = {sqlite_params(InPlayRecord("AAPL", 1, <<<<"url">>>>, 1))}
    /\ last_call.op = "get_inplay"
    /\ ~last_call.raised
    /\ last_call.value = <<InPlayRecord("AAPL", 1, <<<<"url">>>>, 1)>>

----------------------------------------------------------------------------
(* C29 *)

\* The step scans one ticker.
IsScan == spc = "scan" /\ si' = si + 1

\* C29: in every cycle of scanner_loop the scan of a ticker writes the
\* ticker's row exactly when the two requests returned and
\* (last_price - prev_close) / prev_close * 100 >= gap_threshold_percent;
\* otherwise, also when a request raised, the table is left as it is, the
\* for loop goes on to the next ticker, and the while loop sleeps only after
\* the last ticker and then starts the next cycle.  No step removes a ticker
\* from the table.
Thm_C29_WrittenIffGapAtLeastThreshold ==
    [][/\ IsScan =>
            LET t == scan_tickers[si + 1]
                hist == scanned'.hist
                latest == scanned'.latest
                has_gap == scanned'.raised = None /\ Len(hist) >= 2
                prev == hist[Len(hist) - 1]
                last == IF latest /= <<>> THEN latest[Len(latest)]
                        ELSE hist[Len(hist)]
                over == has_gap /\ (last - prev) * 100 >= scan_threshold * prev
            IN /\ scanned'.ticker = t
               /\ over =>
                     /\ \E r \in app_inplay' :
                           /\ r.ticker = t
                           /\ r.last_price = last
                           /\ r.ts = cycle
                     /\ {r \in app_inplay' : r.ticker /= t}
                           = {r \in app_inplay : r.ticker /= t}
                     /\ Cardinality({r \in app_inplay' : r.ticker = t}) = 1
               /\ ~over => app_inplay' = app_inplay
               /\ (scanned'.raised /= None) <=> (scan_printed' /= scan_printed)
               /\ spc' = "scan" /\ cycle' = cycle
       /\ cycle' /= cycle =>
            /\ si = Len(scan_tickers) /\ si' = 0
            /\ cycle' = cycle + 1
            /\ spc' = "scan"
            /\ app_inplay' = app_inplay
       /\ {r.ticker : r \in app_inplay} \subseteq {r.ticker : r \in app_inplay'}]_vars

\* Second cycle, both tickers scanned: both were written in the first cycle;
\* in the second the scan of AAPL raised and that of TSLA, which followed,
\* found a gap of 5% under a threshold of 10%; both rows are still there.
Wit_C29_StaysInPlay ==
    /\ cycle = 1
    /\ si = 2
    /\ scan_threshold = 10
    /\ scan_printed = <<"AAPL">>
    /\ {<<r.ticker, r.ts>> : r \in app_inplay} = {<<"AAPL", 0>>, <<"TSLA", 0>>}
    /\ scanned = [ticker |-> "TSLA", hist |-> <<100, 100>>, latest |-> <<105>>,
                  raised |-> None]

----------------------------------------------------------------------------
(* C30 *)

\* The step is a delete_not_inplay call.
IsDeleteNotInplay == store_calls' = store_calls + 1 /\ keep_arg' /= None

\* C30: after delete_not_inplay(keep) the tickers of the table are the
\* previous tickers that are in keep: every row whose ticker is not in keep
\* is gone, every row whose ticker is in keep is there unchanged, no row is
\* added, and an empty keep leaves an empty table.
Thm_C30_KeepsExactlyKeep ==
    [][IsDeleteNotInplay =>
          LET keep == keep_arg'[1]
          IN /\ {r.ticker : r \in store'} = {r.ticker : r \in store} \cap keep
             /\ \A r \in store : r.ticker \in keep <=> r \in store'
             /\ store' \subseteq store
             /\ keep = {} => store' = {}]_vars

\* Two tickers were stored and delete_not_inplay was called with one of
\* them and a ticker that has no row: the row of the one kept is all that is
\* left.
Wit_C30_OneKeptOneDeleted ==
    /\ store_calls = 3
    /\ keep_arg = <<{"AAPL", "NVDA"}>>
    /\ {<<r.ticker, r.ts>> : r \in store} = {<<"AAPL", 0>>}

----------------------------------------------------------------------------
(* C31 *)

\* C31 as stated: under every interleaving of upsert_inplay calls for one
\* ticker the stored ts never decreases, no call fails, and once every call
\* has returned the row is the record with the greatest ts.
Cex_C31_ConcurrentUpsertsOrdered ==
    [][/\ StoredTs(rows', "AAPL") >= StoredTs(rows, "AAPL")
       /\ \A k \in 1..Len(tasks') : tasks'[k].pc /= "failed"
       /\ (tasks' /= <<>>
           /\ \A k \in 1..Len(tasks') : tasks'[k].pc \in {"done", "skipped"})
             => \A k \in 1..Len(tasks') :
                   StoredTs(rows', "AAPL") >= tasks'[k].record.ts]_vars

----------------------------------------------------------------------------
(* C32 *)

\* C32: an upsert_inplay call whose record is older than the stored row of
\* its ticker leaves the table as it is and creates no notification task;
\* every notification task created carries a record that the same call has
\* just written, and every callback is called with the record of such a
\* task.
Thm_C32_StaleSkipNotNotified ==
    [][/\ (IsCall("upsert_inplay")
           /\ StoredTs(rows, record'.ticker) > record'.ts)
             => rows' = rows /\ notify_tasks' = notify_tasks
       /\ Len(notify_tasks') > Len(notify_tasks)
             => /\ IsCall("upsert_inplay")
                /\ notify_tasks' = Append(notify_tasks, record')
                /\ sqlite_params(record') \in rows'
                /\ StoredTs(rows, record'.ticker) <= record'.ts
       /\ Len(delivered') > Len(delivered)
             => /\ notify_tasks /= <<>>
                /\ \A k \in (Len(delivered) + 1)..Len(delivered') :
                      delivered'[k].record = Head(notify_tasks)]_vars

\* A record with ts = 2 was written and its one subscriber called; the
\* upsert of a record with ts = 1 that followed was skipped: the row is still
\* the first record, no task is pending and nobody was called again.
Wit_C32_SkippedWithSubscriber ==
    /\ calls = 2
    /\ last_call /= None
    /\ last_call.op = "upsert_inplay" /\ ~last_call.raised
    /\ record.ts = 1
    /\ StoredTs(rows, "AAPL") = 2
    /\ subscribers = <<"on_change">>
    /\ notify_tasks = <<>>
    /\ Len(delivered) = 1
    /\ delivered[1].record.ts = 2

----------------------------------------------------------------------------
(* C33 *)

\* C33 as stated: on the first bar of a pass, when its volume is positive,
\* the VWAP equals the close and neither vwap_reclaim nor vwap_loss is
\* emitted; on every leading bar whose cumulative volume is still zero the
\* VWAP is undefined and neither is emitted.
Cex_C33_NoVwapEventOnFirstBar ==
    [][IsIteration =>
          LET row == df[i + 1]
              vw == vwap[i + 1]
              leading_zero == \A j \in 1..(i + 1) : df[j].Volume = 0
          IN /\ (i = 0 /\ row.Volume > 0) =>
                   /\ vw.den /= 0 /\ vw.num = row.Close * vw.den
                   /\ ~Emits("vwap_reclaim") /\ ~Emits("vwap_loss")
             /\ leading_zero =>
                   /\ IsNaN(vw)
                   /\ ~Emits("vwap_reclaim") /\ ~Emits("vwap_loss")
                   /\ ~Emits("atr_stop")]_vars

----------------------------------------------------------------------------
(* C34 *)

\* C34 as stated: after every sequence of sequential upsert_inplay calls with
\* the same records, the table of the SQLite adapter and that of the Postgres
\* adapter hold the same tickers and, for each ticker, the same stored fields
\* and ts.
Cex_C34_AdaptersEquivalent ==
    /\ {r.ticker : r \in rows} = {r.ticker : r \in pg_rows}
    /\ \A r \in rows : \A q \in pg_rows :
          r.ticker = q.ticker =>
             /\ r.ts = q.ts
             /\ r.price = q.price
             /\ r.news = q.news

====
